---- MODULE Spec2Model ----
(***************************************************************************)
(* EquityScreener: the filter engine (src/core/filters.py), the base       *)
(* scoring engine (src/core/scoring.py) and the AI scoring engine          *)
(* (src/analysis/ai_scoring.py).                                           *)
(*                                                                         *)
(* Units.  Metric values (ratios, margins, growth rates, prices) are       *)
(* integers in thousandths: 0.5 is 500, 15 is 15000.  Sub-scores are       *)
(* integers in tenths: 5.0 is 50, 1.5 is 15.  Totals are integers in       *)
(* hundredths (the 2-decimal rounding).  Arithmetic is exact: Python's     *)
(* binary floating point is modelled by the real numbers it approximates.  *)
(* An Optional value is a sequence: <<>> is None, <<v>> is the value v.    *)
(***************************************************************************)
EXTENDS Integers, Sequences, FiniteSets, TLC

VARIABLES
    config,            \* FilterEngine.config: the criteria configuration
    filters,           \* FilterEngine.filters: the compiled rules, in order
    weights,           \* ScoringEngine.weights, in hundredths
    stock,             \* the Stock the engines are called on
    analysis,          \* Optional StockAnalysis handed to AIScorer.score
    sector_median_pe,  \* Optional sector median P/E handed to AIScorer.score
    price_source,      \* what yf.Ticker(symbol).history(period="3mo") does
    evalResult,        \* Optional return value of FilterEngine.evaluate
    passResult,        \* Optional return value of FilterEngine.passes_all
    failingResult,     \* Optional return value of get_failing_filters
    baseResult,        \* Optional return value of ScoringEngine.score
    aiResult,          \* Optional return value of AIScorer.score
    run,               \* the locals of one StockScreener.run and its place
    filterResult       \* Optional return value of Stock.passes_filter

vars == <<config, filters, weights, stock, analysis, sector_median_pe, price_source,
          evalResult, passResult, failingResult, baseResult, aiResult, run,
          filterResult>>

----------------------------------------------------------------------------
(* Optional values and small helpers *)

None == <<>>

Some(v) == <<v>>

Val(x) == x[1]

\* Python truthiness of an Optional number: not None and not 0
Truthy(x) == x # None /\ Val(x) # 0

Max2(a, b) == IF a >= b THEN a ELSE b

Min2(a, b) == IF a <= b THEN a ELSE b

----------------------------------------------------------------------------
(* Data model: src/models/stock.py *)

MetricNames ==
    {"pe_ratio", "peg_ratio", "pb_ratio", "ps_ratio",
     "eps_growth_5y", "revenue_growth_5y", "eps_growth_ttm",
     "roe", "roa", "gross_margin", "operating_margin", "net_margin",
     "current_ratio", "quick_ratio",
     "debt_to_equity", "interest_coverage"}

\* StockMetrics(): every field defaults to None
StockMetrics == [f \in MetricNames |-> None]

\* Stock(...): score defaults to None, score_breakdown to an empty dict
Stock(symbol, sector, industry, metrics) ==
    [symbol |-> symbol, sector |-> sector, industry |-> industry,
     metrics |-> metrics, score |-> None, score_breakdown |-> None]

\* getattr(stock.metrics, metric, None)
getattr(metrics, metric) ==
    IF metric \in DOMAIN metrics THEN metrics[metric] ELSE None

\* Stock.passes_filter returning False on a metric without a value
RECURSIVE Stock_passes_filter_absent_fails(_, _)
Stock_passes_filter_absent_fails(self, criteria) ==
    IF criteria = <<>> THEN TRUE
    ELSE LET bounds == Head(criteria)
             value == getattr(self.metrics, bounds.metric)
         IN  IF value = None THEN FALSE
             ELSE IF bounds.min # None /\ Val(value) < Val(bounds.min) THEN FALSE
             ELSE IF bounds.max # None /\ Val(value) > Val(bounds.max) THEN FALSE
             ELSE Stock_passes_filter_absent_fails(self, Tail(criteria))

\* Stock.passes_filter(criteria): criteria is the sequence of the items of
\* the dict, each [metric, min, max, required]
RECURSIVE Stock_passes_filter(_, _)
Stock_passes_filter(self, criteria) ==
    IF criteria = <<>> THEN TRUE
    ELSE LET bounds == Head(criteria)
             value == getattr(self.metrics, bounds.metric)
         IN  IF value = None THEN Stock_passes_filter(self, Tail(criteria))
             ELSE IF bounds.min # None /\ Val(value) < Val(bounds.min) THEN FALSE
             ELSE IF bounds.max # None /\ Val(value) > Val(bounds.max) THEN FALSE
             ELSE Stock_passes_filter(self, Tail(criteria))

----------------------------------------------------------------------------
(* Filter engine: src/core/filters.py                                      *)
(* A criteria configuration maps a category name to the sequence of its    *)
(* entries (a Python dict keeps insertion order, and its keys, the metric  *)
(* names, are distinct); an entry is [metric, min, max, required] with     *)
(* Optional min, max and required (None: the key is missing).  The         *)
(* operability category holds the Optional exclusion lists.  A rule name   *)
(* "<category>.<metric>" is the pair <<category, metric>>.                 *)

RangeCategories ==
    <<"valuation", "growth", "profitability", "liquidity", "solvency">>

\* self.config.get(category, {})
config_get(cfg, category) ==
    IF category \in DOMAIN cfg THEN cfg[category] ELSE <<>>

\* _create_range_filter: the closure captures min_val, max_val and required
create_range_filter(category, metric, bounds) ==
    [name     |-> <<category, metric>>,
     kind     |-> "range",
     metric   |-> metric,
     min_val  |-> bounds.min,
     max_val  |-> bounds.max,
     required |-> IF bounds.required = None THEN FALSE
                  ELSE Val(bounds.required),
     excluded |-> {}]

\* the lambdas of _build_filters for operability.sector / .industry
exclusion_filter(field, excluded) ==
    [name     |-> <<"operability", field>>,
     kind     |-> field,
     metric   |-> "",
     min_val  |-> None,
     max_val  |-> None,
     required |-> FALSE,
     excluded |-> excluded]

\* that loop compiling every entry, bounded or not
RECURSIVE category_filters_unconditional(_, _)
category_filters_unconditional(category, entries) ==
    IF entries = <<>> THEN <<>>
    ELSE <<create_range_filter(category, Head(entries).metric,
                               Head(entries))>>
         \o category_filters_unconditional(category, Tail(entries))

\* one "for metric, bounds in self.config.get(category, {}).items()" loop
RECURSIVE category_filters(_, _)
category_filters(category, entries) ==
    IF entries = <<>> THEN <<>>
    ELSE LET bounds == Head(entries)
             rest   == category_filters(category, Tail(entries))
         IN  IF bounds.min # None \/ bounds.max # None
             THEN <<create_range_filter(category, bounds.metric, bounds)>>
                  \o rest
             ELSE rest

\* the operability part of _build_filters
operability_filters(cfg) ==
    LET operability == IF "operability" \in DOMAIN cfg
                       THEN cfg["operability"]
                       ELSE [exclude_sectors |-> None,
                             exclude_industries |-> None]
        sectors == operability.exclude_sectors
        industries == operability.exclude_industries
    IN  (IF sectors # None /\ Val(sectors) # {}
         THEN <<exclusion_filter("sector", Val(sectors))>> ELSE <<>>)
        \o
        (IF industries # None /\ Val(industries) # {}
         THEN <<exclusion_filter("industry", Val(industries))>> ELSE <<>>)

RECURSIVE range_filters(_, _)
range_filters(cfg, i) ==
    IF i > Len(RangeCategories) THEN <<>>
    ELSE category_filters(RangeCategories[i],
                          config_get(cfg, RangeCategories[i]))
         \o range_filters(cfg, i + 1)

\* _build_filters with a sixth loop, over a "momentum" category
build_filters_with_momentum(cfg) ==
    range_filters(cfg, 1)
        \o category_filters("momentum", config_get(cfg, "momentum"))
        \o operability_filters(cfg)

\* FilterEngine._build_filters
build_filters(cfg) == range_filters(cfg, 1) \o operability_filters(cfg)

\* filter_func with the upper bound exclusive (>= for >)
filter_func_exclusive_max(f, s) ==
    IF f.kind = "sector" THEN s.sector \notin f.excluded
    ELSE IF f.kind = "industry" THEN s.industry \notin f.excluded
    ELSE LET value == getattr(s.metrics, f.metric)
         IN  IF value = None THEN ~f.required
             ELSE IF f.min_val # None /\ Val(value) < Val(f.min_val)
                  THEN FALSE
             ELSE IF f.max_val # None /\ Val(value) >= Val(f.max_val)
                  THEN FALSE
             ELSE TRUE

\* filter_func with the industry lambda reading s.sector
filter_func_industry_reads_sector(f, s) ==
    IF f.kind = "sector" THEN s.sector \notin f.excluded
    ELSE IF f.kind = "industry" THEN s.sector \notin f.excluded
    ELSE LET value == getattr(s.metrics, f.metric)
         IN  IF value = None THEN ~f.required
             ELSE IF f.min_val # None /\ Val(value) < Val(f.min_val)
                  THEN FALSE
             ELSE IF f.max_val # None /\ Val(value) > Val(f.max_val)
                  THEN FALSE
             ELSE TRUE

\* filter_func of _create_range_filter, and the two exclusion lambdas
filter_func(f, s) ==
    IF f.kind = "sector" THEN s.sector \notin f.excluded
    ELSE IF f.kind = "industry" THEN s.industry \notin f.excluded
    ELSE LET value == getattr(s.metrics, f.metric)
         IN  IF value = None THEN ~f.required
             ELSE IF f.min_val # None /\ Val(value) < Val(f.min_val)
                  THEN FALSE
             ELSE IF f.max_val # None /\ Val(value) > Val(f.max_val)
                  THEN FALSE
             ELSE TRUE

\* passes_all returning after the first rule, whatever it says
passes_all_first_only(fs, s) ==
    IF fs = <<>> THEN TRUE ELSE filter_func(Head(fs), s)

\* FilterEngine.passes_all: returns False at the first failing rule
RECURSIVE passes_all(_, _)
passes_all(fs, s) ==
    IF fs = <<>> THEN TRUE
    ELSE IF ~filter_func(Head(fs), s) THEN FALSE
    ELSE passes_all(Tail(fs), s)

\* FilterEngine.evaluate: a dict comprehension, a later entry of the same
\* name replaces an earlier one
RECURSIVE evaluate_from(_, _, _)
evaluate_from(fs, s, acc) ==
    IF fs = <<>> THEN acc
    ELSE LET f == Head(fs)
             names == DOMAIN acc \cup {f.name}
         IN  evaluate_from(Tail(fs), s,
                 [n \in names |-> IF n = f.name THEN filter_func(f, s)
                                  ELSE acc[n]])

evaluate(fs, s) == evaluate_from(fs, s, [n \in {} |-> FALSE])

\* get_failing_filters inserting each name at the front of the list
RECURSIVE get_failing_filters_reversed(_, _)
get_failing_filters_reversed(fs, s) ==
    IF fs = <<>> THEN <<>>
    ELSE get_failing_filters_reversed(Tail(fs), s)
         \o (IF ~filter_func(Head(fs), s) THEN <<Head(fs).name>> ELSE <<>>)

\* FilterEngine.get_failing_filters
RECURSIVE get_failing_filters(_, _)
get_failing_filters(fs, s) ==
    IF fs = <<>> THEN <<>>
    ELSE (IF ~filter_func(Head(fs), s) THEN <<Head(fs).name>> ELSE <<>>)
         \o get_failing_filters(Tail(fs), s)

----------------------------------------------------------------------------
(* Scores *)

\* the clamp left out
Clamp_missing(score) == score

\* max(0, min(10, score)), in tenths
Clamp(score) == Max2(0, Min2(100, score))

\* round(n / d) to the nearest integer, ties to the even one (d > 0):
\* Python's round(x, 2) on the exact value
RoundHalfEven(n, d) ==
    LET q == n \div d
        r == n % d
    IN  IF 2 * r < d THEN q
        ELSE IF 2 * r > d THEN q + 1
        ELSE IF q % 2 = 0 THEN q ELSE q + 1

\* sum(breakdown.get(cat, 0) * weights.get(cat, 0) for cat in cats),
\* in thousandths
RECURSIVE weighted_sum(_, _, _)
weighted_sum(w, breakdown, cats) ==
    IF cats = {} THEN 0
    ELSE LET cat == CHOOSE c \in cats : TRUE
         IN  (IF cat \in DOMAIN breakdown THEN breakdown[cat] ELSE 0)
                 * w[cat]
             + weighted_sum(w, breakdown, cats \ {cat})

----------------------------------------------------------------------------
(* Base scoring engine: src/core/scoring.py *)

\* ScoringEngine.__init__: config.get("weights", {... 0.25 each}), in
\* hundredths; scoring_weights is the Optional "weights" entry
ScoringEngine_weights(scoring_weights) ==
    IF scoring_weights # None THEN Val(scoring_weights)
    ELSE [cat \in {"valuation", "growth", "profitability",
                   "financial_health"} |-> 25]

\* _score_valuation giving no reward to a PEG that is not positive
ScoringEngine_score_valuation_positive_peg(s) ==
    LET m == s.metrics
        peg == IF m.peg_ratio = None THEN 0
               ELSE IF Val(m.peg_ratio) <= 0 THEN 0
               ELSE IF Val(m.peg_ratio) <= 500 THEN 30
               ELSE IF Val(m.peg_ratio) <= 750 THEN 20
               ELSE IF Val(m.peg_ratio) <= 1000 THEN 10
               ELSE IF Val(m.peg_ratio) > 1500 THEN -20
               ELSE 0
        pe  == IF m.pe_ratio = None THEN 0
               ELSE IF 10000 <= Val(m.pe_ratio) /\ Val(m.pe_ratio) <= 20000
                    THEN 20
               ELSE IF 5000 <= Val(m.pe_ratio) /\ Val(m.pe_ratio) <= 30000
                    THEN 10
               ELSE IF Val(m.pe_ratio) > 50000 THEN -20
               ELSE 0
    IN  Max2(0, Min2(100, 50 + peg + pe))

\* _score_valuation testing the wide P/E range before the ideal one
ScoringEngine_score_valuation_wide_pe_first(s) ==
    LET m == s.metrics
        peg == IF m.peg_ratio = None THEN 0
               ELSE IF Val(m.peg_ratio) <= 500 THEN 30
               ELSE IF Val(m.peg_ratio) <= 750 THEN 20
               ELSE IF Val(m.peg_ratio) <= 1000 THEN 10
               ELSE IF Val(m.peg_ratio) > 1500 THEN -20
               ELSE 0
        pe  == IF m.pe_ratio = None THEN 0
               ELSE IF 5000 <= Val(m.pe_ratio) /\ Val(m.pe_ratio) <= 30000
                    THEN 10
               ELSE IF 10000 <= Val(m.pe_ratio) /\ Val(m.pe_ratio) <= 20000
                    THEN 20
               ELSE IF Val(m.pe_ratio) > 50000 THEN -20
               ELSE 0
    IN  Max2(0, Min2(100, 50 + peg + pe))

\* _score_valuation: PEG tiers, then P/E tiers, in tenths
ScoringEngine_score_valuation(s) ==
    LET m == s.metrics
        peg == IF m.peg_ratio = None THEN 0
               ELSE IF Val(m.peg_ratio) <= 500 THEN 30
               ELSE IF Val(m.peg_ratio) <= 750 THEN 20
               ELSE IF Val(m.peg_ratio) <= 1000 THEN 10
               ELSE IF Val(m.peg_ratio) > 1500 THEN -20
               ELSE 0
        pe  == IF m.pe_ratio = None THEN 0
               ELSE IF 10000 <= Val(m.pe_ratio) /\ Val(m.pe_ratio) <= 20000
                    THEN 20
               ELSE IF 5000 <= Val(m.pe_ratio) /\ Val(m.pe_ratio) <= 30000
                    THEN 10
               ELSE IF Val(m.pe_ratio) > 50000 THEN -20
               ELSE 0
    IN  Clamp(50 + peg + pe)

ScoringEngine_score_growth(s) ==
    LET m == s.metrics
        growth == Val(m.eps_growth_5y) * 100
        eps == IF m.eps_growth_5y = None THEN 0
               ELSE IF growth >= 20000 THEN 30
               ELSE IF growth >= 15000 THEN 20
               ELSE IF growth >= 10000 THEN 10
               ELSE IF growth < 5000 THEN -10
               ELSE 0
        rev == IF m.revenue_growth_5y # None
                  /\ Val(m.revenue_growth_5y) > 100 THEN 10
               ELSE 0
    IN  Clamp(50 + eps + rev)

\* _score_profitability multiplying every ROE by 100
ScoringEngine_score_profitability_roe_times_100(s) ==
    LET m == s.metrics
        roe_pct == Val(m.roe) * 100
        roe == IF m.roe = None THEN 0
               ELSE IF roe_pct >= 25000 THEN 30
               ELSE IF roe_pct >= 20000 THEN 20
               ELSE IF roe_pct >= 15000 THEN 10
               ELSE IF roe_pct < 10000 THEN -10
               ELSE 0
        margin == IF m.net_margin = None THEN 0
                  ELSE IF Val(m.net_margin) > 150 THEN 10
                  ELSE IF Val(m.net_margin) > 100 THEN 5
                  ELSE 0
        roa == IF m.roa # None /\ Val(m.roa) > 100 THEN 10 ELSE 0
    IN  Max2(0, Min2(100, 50 + roe + margin + roa))

\* _score_profitability: ROE tiers on the percentage, margin and ROA bonus
ScoringEngine_score_profitability(s) ==
    LET m == s.metrics
        roe_pct == IF Val(m.roe) < 1000 THEN Val(m.roe) * 100
                   ELSE Val(m.roe)
        roe == IF m.roe = None THEN 0
               ELSE IF roe_pct >= 25000 THEN 30
               ELSE IF roe_pct >= 20000 THEN 20
               ELSE IF roe_pct >= 15000 THEN 10
               ELSE IF roe_pct < 10000 THEN -10
               ELSE 0
        margin == IF m.net_margin = None THEN 0
                  ELSE IF Val(m.net_margin) > 150 THEN 10
                  ELSE IF Val(m.net_margin) > 100 THEN 5
                  ELSE 0
        roa == IF m.roa # None /\ Val(m.roa) > 100 THEN 10 ELSE 0
    IN  Clamp(50 + roe + margin + roa)

\* _score_financial_health with strict comparisons on debt-to-equity
ScoringEngine_score_financial_health_strict_debt(s) ==
    LET m == s.metrics
        current == IF m.current_ratio = None THEN 0
                   ELSE IF Val(m.current_ratio) >= 2500 THEN 20
                   ELSE IF Val(m.current_ratio) >= 2000 THEN 15
                   ELSE IF Val(m.current_ratio) >= 1500 THEN 10
                   ELSE IF Val(m.current_ratio) < 1000 THEN -20
                   ELSE 0
        quick == IF m.quick_ratio = None THEN 0
                 ELSE IF Val(m.quick_ratio) >= 1500 THEN 15
                 ELSE IF Val(m.quick_ratio) >= 1000 THEN 10
                 ELSE IF Val(m.quick_ratio) < 500 THEN -10
                 ELSE 0
        debt == IF m.debt_to_equity = None THEN 0
                ELSE IF Val(m.debt_to_equity) < 200 THEN 20
                ELSE IF Val(m.debt_to_equity) < 300 THEN 15
                ELSE IF Val(m.debt_to_equity) < 500 THEN 10
                ELSE IF Val(m.debt_to_equity) > 1000 THEN -20
                ELSE 0
    IN  Max2(0, Min2(100, 50 + current + quick + debt))

\* _score_financial_health: current ratio, quick ratio and debt tiers
ScoringEngine_score_financial_health(s) ==
    LET m == s.metrics
        current == IF m.current_ratio = None THEN 0
                   ELSE IF Val(m.current_ratio) >= 2500 THEN 20
                   ELSE IF Val(m.current_ratio) >= 2000 THEN 15
                   ELSE IF Val(m.current_ratio) >= 1500 THEN 10
                   ELSE IF Val(m.current_ratio) < 1000 THEN -20
                   ELSE 0
        quick == IF m.quick_ratio = None THEN 0
                 ELSE IF Val(m.quick_ratio) >= 1500 THEN 15
                 ELSE IF Val(m.quick_ratio) >= 1000 THEN 10
                 ELSE IF Val(m.quick_ratio) < 500 THEN -10
                 ELSE 0
        debt == IF m.debt_to_equity = None THEN 0
                ELSE IF Val(m.debt_to_equity) <= 200 THEN 20
                ELSE IF Val(m.debt_to_equity) <= 300 THEN 15
                ELSE IF Val(m.debt_to_equity) <= 500 THEN 10
                ELSE IF Val(m.debt_to_equity) > 1000 THEN -20
                ELSE 0
    IN  Clamp(50 + current + quick + debt)

\* ScoringEngine.score dividing the weighted sum by the sum of the weights
ScoringEngine_score_normalized(w, s) ==
    LET breakdown ==
            [valuation        |-> ScoringEngine_score_valuation(s),
             growth           |-> ScoringEngine_score_growth(s),
             profitability    |-> ScoringEngine_score_profitability(s),
             financial_health |-> ScoringEngine_score_financial_health(s)]
        ones == [cat \in DOMAIN w |-> 1]
        total_weight == weighted_sum(w, ones, DOMAIN w)
    IN  [total     |-> IF total_weight > 0
                       THEN RoundHalfEven(
                                10 * weighted_sum(w, breakdown, DOMAIN w),
                                total_weight)
                       ELSE 0,
         breakdown |-> breakdown]

\* ScoringEngine.score: (round(total, 2), breakdown)
ScoringEngine_score(w, s) ==
    LET breakdown ==
            [valuation        |-> ScoringEngine_score_valuation(s),
             growth           |-> ScoringEngine_score_growth(s),
             profitability    |-> ScoringEngine_score_profitability(s),
             financial_health |-> ScoringEngine_score_financial_health(s)]
    IN  [total     |-> RoundHalfEven(weighted_sum(w, breakdown, DOMAIN w),
                                     10),
         breakdown |-> breakdown]

----------------------------------------------------------------------------
(* Orchestrator: src/core/screener.py *)

\* self.config.get("scoring", {})
scoring_config(cfg) ==
    IF "scoring" \in DOMAIN cfg THEN cfg["scoring"]
    ELSE [enabled |-> None, weights |-> None]

\* the truth value of self.config.get("scoring", {}).get("enabled")
scoring_enabled(cfg) == scoring_config(cfg).enabled = Some(TRUE)

\* self.config.get("output", {}).get("max_results", 100)
max_results(cfg) ==
    IF "output" \in DOMAIN cfg /\ cfg["output"].max_results # None
    THEN Val(cfg["output"].max_results)
    ELSE 100

\* candidates[:limit] under "if limit:"
apply_limit(candidates, limit) ==
    IF Truthy(limit)
    THEN SubSeq(candidates, 1, Min2(Val(limit), Len(candidates)))
    ELSE candidates

\* f"{symbol}: {str(e)}"
error_entry(symbol, message) == <<symbol, ": ", message>>

\* the sort key "s.score or 0" of the Stock at place k of built
score_or_0(built, k) ==
    IF Truthy(built[k].stock.score) THEN Val(built[k].stock.score) ELSE 0

\* list.sort(key=...) without reverse=True: lowest key first
RECURSIVE sort_by_score_ascending(_, _)
sort_by_score_ascending(built, stocks) ==
    IF stocks = <<>> THEN <<>>
    ELSE LET n    == Len(stocks)
             last == stocks[n]
             rest == sort_by_score_ascending(built, SubSeq(stocks, 1, n - 1))
             keep == Cardinality({j \in 1..Len(rest) :
                         score_or_0(built, rest[j])
                             <= score_or_0(built, last)})
         IN  SubSeq(rest, 1, keep) \o <<last>>
                 \o SubSeq(rest, keep + 1, Len(rest))

\* list.sort(key=..., reverse=True): stable, highest key first
RECURSIVE sort_by_score(_, _)
sort_by_score(built, stocks) ==
    IF stocks = <<>> THEN <<>>
    ELSE LET n    == Len(stocks)
             last == stocks[n]
             rest == sort_by_score(built, SubSeq(stocks, 1, n - 1))
             keep == Cardinality({j \in 1..Len(rest) :
                         score_or_0(built, rest[j])
                             >= score_or_0(built, last)})
         IN  SubSeq(rest, 1, keep) \o <<last>>
                 \o SubSeq(rest, keep + 1, Len(rest))

----------------------------------------------------------------------------
(* AI scoring engine: src/analysis/ai_scoring.py                           *)
(* A StockAnalysis is a record of Optional numbers, a list of headlines    *)
(* and an Optional EarningsInfo; a headline title is the sequence of its   *)
(* words as written (what re.findall(r'\w+', ...) splits it into).         *)

POSITIVE_KEYWORDS ==
    {"beat", "beats", "exceeds", "surpass", "upgrade", "upgrades", "buy",
     "outperform", "strong", "growth", "record", "profit", "gains", "surge",
     "jumps", "soars", "rally", "bullish", "positive", "success", "boost",
     "innovation", "breakthrough", "expansion", "dividend", "buyback",
     "acquisition", "partnership", "deal", "win", "award", "launch"}

NEGATIVE_KEYWORDS ==
    {"miss", "misses", "below", "downgrade", "downgrades", "sell", "cut",
     "underperform", "weak", "decline", "loss", "losses", "drop", "plunge",
     "falls", "crash", "bearish", "negative", "warning", "concern", "risk",
     "lawsuit", "investigation", "recall", "delay", "layoff", "layoffs",
     "debt", "default", "bankruptcy", "fraud", "scandal", "fine", "penalty"}

NEUTRAL_KEYWORDS ==
    {"hold", "neutral", "maintain", "steady", "flat", "unchanged", "mixed"}

\* StockAnalysis(symbol, name, sector, industry): every other field at its
\* default
StockAnalysis ==
    [peg_finviz |-> None, fwd_pe |-> None,
     eps_this_year |-> None, eps_next_year |-> None,
     news |-> <<>>, earnings |-> None,
     net_income_ttm |-> None, free_cash_flow |-> None,
     total_debt |-> None, total_cash |-> None]

\* EarningsInfo(next_earnings_date=d)
EarningsInfo(d) == [next_earnings_date |-> d]

\* the words a headline can be written with, and str.lower() on each
RawWords == {"Beat", "surge", "MISS", "hold"}

lower(word) ==
    CASE word = "Beat" -> "beat"
      [] word = "MISS" -> "miss"
      [] OTHER -> word

\* the result of AIScorer.score for an absent or empty headline list
NoNewsAvailable ==
    <<[num |-> 50, den |-> 1],
      [text |-> "No news available", counts |-> <<>>]>>

AIScorer_score_fundamentals(s) ==
    LET m == s.metrics
        roe_pct == IF Val(m.roe) < 1000 THEN Val(m.roe) * 100
                   ELSE Val(m.roe)
        roe == IF m.roe = None THEN 0
               ELSE IF roe_pct >= 25000 THEN 20
               ELSE IF roe_pct >= 20000 THEN 15
               ELSE IF roe_pct >= 15000 THEN 10
               ELSE IF roe_pct < 10000 THEN -10
               ELSE 0
        margin == IF m.net_margin = None THEN 0
                  ELSE IF Val(m.net_margin) > 200 THEN 15
                  ELSE IF Val(m.net_margin) > 150 THEN 10
                  ELSE IF Val(m.net_margin) > 100 THEN 5
                  ELSE IF Val(m.net_margin) < 50 THEN -10
                  ELSE 0
        current == IF m.current_ratio = None THEN 0
                   ELSE IF Val(m.current_ratio) >= 2000 THEN 10
                   ELSE IF Val(m.current_ratio) < 1000 THEN -15
                   ELSE 0
        debt == IF m.debt_to_equity = None THEN 0
                ELSE IF Val(m.debt_to_equity) <= 300 THEN 10
                ELSE IF Val(m.debt_to_equity) > 1000 THEN -10
                ELSE 0
    IN  Clamp(50 + roe + margin + current + debt)

\* _score_valuation: (score, vs_sector).  Each step maps the pair
\* <<score, vs_sector>> reached so far to the next one.
AIScorer_score_valuation(s, a, median_pe) ==
    LET m == s.metrics
        peg == IF a # None /\ Truthy(Val(a).peg_finviz)
               THEN Val(a).peg_finviz
               ELSE IF Truthy(m.peg_ratio) THEN m.peg_ratio
               ELSE None
        s1 == IF peg = None THEN <<50, "fair">>
              ELSE IF Val(peg) <= 500 THEN <<80, "very cheap">>
              ELSE IF Val(peg) <= 750 THEN <<70, "cheap">>
              ELSE IF Val(peg) <= 1000 THEN <<60, "fair">>
              ELSE IF Val(peg) > 1500 THEN <<40, "expensive">>
              ELSE IF Val(peg) > 2000 THEN <<30, "very expensive">>
              ELSE <<50, "fair">>
        \* pe_ratio = m.pe_ratio / sector_median_pe, compared by cross
        \* multiplication (the median is positive where it is truthy here)
        pe == Val(m.pe_ratio)
        med == Val(median_pe)
        s2 == IF ~(Truthy(m.pe_ratio) /\ Truthy(median_pe)) THEN s1
              ELSE IF 10 * pe < 7 * med THEN <<s1[1] + 20, "cheap vs sector">>
              ELSE IF 10 * pe < 9 * med THEN <<s1[1] + 10, s1[2]>>
              ELSE IF 10 * pe > 13 * med THEN <<s1[1] - 10, s1[2]>>
              ELSE IF 10 * pe > 15 * med THEN <<s1[1] - 20, s1[2]>>
              ELSE s1
        s3 == IF ~(a # None /\ Truthy(Val(a).fwd_pe)) THEN s2
              ELSE IF Val(Val(a).fwd_pe) < 15000 THEN <<s2[1] + 10, s2[2]>>
              ELSE IF Val(Val(a).fwd_pe) > 30000 THEN <<s2[1] - 10, s2[2]>>
              ELSE s2
    IN  <<Clamp(s3[1]), s3[2]>>

\* _score_growth: (score, outlook)
AIScorer_score_growth(s, a) ==
    LET m == s.metrics
        growth == IF Val(m.eps_growth_5y) < 1000
                  THEN Val(m.eps_growth_5y) * 100
                  ELSE Val(m.eps_growth_5y)
        s1 == IF m.eps_growth_5y = None THEN <<50, "stable">>
              ELSE IF growth >= 25000 THEN <<70, "strong">>
              ELSE IF growth >= 15000 THEN <<65, "stable">>
              ELSE IF growth >= 10000 THEN <<60, "stable">>
              ELSE IF growth < 5000 THEN <<40, "weak">>
              ELSE <<50, "stable">>
        this == Val(Val(a).eps_this_year)
        next == Val(Val(a).eps_next_year)
        s2 == IF a = None THEN s1
              ELSE IF ~(Truthy(Val(a).eps_this_year)
                        /\ Truthy(Val(a).eps_next_year)) THEN s1
              ELSE IF next > this THEN <<s1[1] + 15, "accelerating">>
              ELSE IF 10 * next < 9 * this
                   THEN <<s1[1] - 10, "decelerating">>
              ELSE s1
        s3 == IF a # None /\ Truthy(Val(a).eps_this_year) /\ this > 300
              THEN <<s2[1] + 10, s2[2]>>
              ELSE s2
        s4 == IF m.revenue_growth_5y = None THEN s3
              ELSE IF Val(m.revenue_growth_5y) > 150
                   THEN <<s3[1] + 10, s3[2]>>
              ELSE IF Val(m.revenue_growth_5y) < 0
                   THEN <<s3[1] - 10, s3[2]>>
              ELSE s3
    IN  <<Clamp(s4[1]), s4[2]>>

\* the sum close[i] + ... + close[j]
RECURSIVE SumRange(_, _, _)
SumRange(close, i, j) ==
    IF i > j THEN 0
    ELSE IF i = j THEN close[i]
    ELSE LET mid == (i + j) \div 2
         IN  SumRange(close, i, mid) + SumRange(close, mid + 1, j)

\* hist["Close"].rolling(window).mean().iloc[-1] as the window's sum: NaN
\* (None) when fewer than window observations exist
rolling_sum(close, window) ==
    IF Len(close) < window THEN None
    ELSE Some(SumRange(close, Len(close) - window + 1, Len(close)))

\* hist["Close"].max() and .min()
series_max(close) ==
    LET i == CHOOSE k \in DOMAIN close : \A j \in DOMAIN close : close[k] >= close[j]
    IN  close[i]

series_min(close) ==
    LET i == CHOOSE k \in DOMAIN close : \A j \in DOMAIN close : close[k] <= close[j]
    IN  close[i]

\* changes.where(changes > 0, 0): the first difference is NaN and becomes 0
gains(close) ==
    [i \in 1..Len(close) |->
        IF i > 1 /\ close[i] - close[i - 1] > 0 THEN close[i] - close[i - 1]
        ELSE 0]

\* -changes.where(changes < 0, 0)
losses(close) ==
    [i \in 1..Len(close) |->
        IF i > 1 /\ close[i] - close[i - 1] < 0 THEN close[i - 1] - close[i]
        ELSE 0]

\* the steps of _score_momentum on a non-empty history, each mapping the
\* pair <<score, trend>> reached so far to the next one
momentum_trend_step(close, st) ==
    LET n == Len(close)
        current_price == close[n]
        sum_20 == rolling_sum(close, 20)
        sum_50 == rolling_sum(close, 50)
        \* NaN compares False with everything
        price_gt_20 == sum_20 # None /\ 20 * current_price > Val(sum_20)
        price_lt_20 == sum_20 # None /\ 20 * current_price < Val(sum_20)
        \* sma_50 is sma_20 itself when len(hist) < 50
        sma20_gt_50 == n >= 50 /\ 50 * Val(sum_20) > 20 * Val(sum_50)
        sma20_lt_50 == n >= 50 /\ 50 * Val(sum_20) < 20 * Val(sum_50)
    IN  IF price_gt_20 /\ sma20_gt_50 THEN <<st[1] + 20, "bullish">>
        ELSE IF price_gt_20 THEN <<st[1] + 10, "slightly bullish">>
        ELSE IF price_lt_20 /\ sma20_lt_50 THEN <<st[1] - 20, "bearish">>
        ELSE IF price_lt_20 THEN <<st[1] - 10, "slightly bearish">>
        ELSE st

momentum_range_step(close, st) ==
    LET current_price == close[Len(close)]
        low_52w == series_min(close)
        range_52w == series_max(close) - low_52w
    IN  IF range_52w > 0
        THEN IF 10 * (current_price - low_52w) < 3 * range_52w
             THEN <<st[1] + 10, st[2]>>
             ELSE IF 10 * (current_price - low_52w) > 9 * range_52w
             THEN <<st[1] - 5, st[2]>>
             ELSE st
        ELSE st

\* the RSI step leaving the trend label as it is when rsi < 30
momentum_rsi_step_keeps_trend(close, st) ==
    LET gain == rolling_sum(gains(close), 14)
        loss == rolling_sum(losses(close), 14)
    IN  IF loss # None /\ Val(loss) > 0
        THEN IF 7 * Val(gain) < 3 * Val(loss)
             THEN <<st[1] + 15, st[2]>>
             ELSE IF 3 * Val(gain) > 7 * Val(loss)
             THEN <<st[1] - 5, st[2]>>
             ELSE st
        ELSE st

\* rsi = 100 - 100 / (1 + gain / loss): rsi < 30 iff 7 * gain < 3 * loss,
\* rsi > 70 iff 3 * gain > 7 * loss (the two means share the divisor 14)
momentum_rsi_step(close, st) ==
    LET gain == rolling_sum(gains(close), 14)
        loss == rolling_sum(losses(close), 14)
    IN  IF loss # None /\ Val(loss) > 0
        THEN IF 7 * Val(gain) < 3 * Val(loss)
             THEN <<st[1] + 15, "oversold - potential bounce">>
             ELSE IF 3 * Val(gain) > 7 * Val(loss)
             THEN <<st[1] - 5, st[2]>>
             ELSE st
        ELSE st

\* _score_momentum with an except clause that resets score and trend
AIScorer_score_momentum_reset(src) ==
    LET st0 == <<50, "neutral">>
        st3 == momentum_rsi_step(src.close,
                   momentum_range_step(src.close,
                       momentum_trend_step(src.close, st0)))
        reached == IF src.raises = "history" THEN st0
                   ELSE IF src.close = <<>> THEN st0
                   ELSE IF src.raises # "none" THEN st0
                   ELSE st3
    IN  <<Clamp(reached[1]), reached[2]>>

\* _score_momentum: (score, trend).  src.raises names the statement of the
\* try block that raises ("none": no statement does); the except clause
\* logs and falls through to the final return with the score and trend
\* assigned so far.
AIScorer_score_momentum(src) ==
    LET st0 == <<50, "neutral">>
        st1 == momentum_trend_step(src.close, st0)
        st2 == momentum_range_step(src.close, st1)
        st3 == momentum_rsi_step(src.close, st2)
        reached == IF src.raises = "history" THEN st0
                   ELSE IF src.close = <<>> THEN st0
                   ELSE IF src.raises = "sma" THEN st0
                   ELSE IF src.raises = "range" THEN st1
                   ELSE IF src.raises = "rsi" THEN st2
                   ELSE st3
    IN  <<Clamp(reached[1]), reached[2]>>

\* the keyword counts of one title without title.lower()
RECURSIVE count_title_case_sensitive(_)
count_title_case_sensitive(words) ==
    IF words = <<>> THEN <<0, 0>>
    ELSE LET word == Head(words)
             rest == count_title_case_sensitive(Tail(words))
         IN  IF word \in POSITIVE_KEYWORDS THEN <<rest[1] + 1, rest[2]>>
             ELSE IF word \in NEGATIVE_KEYWORDS THEN <<rest[1], rest[2] + 1>>
             ELSE rest

\* the keyword counts of one title: <<positive, negative>>
RECURSIVE count_title(_)
count_title(words) ==
    IF words = <<>> THEN <<0, 0>>
    ELSE LET word == lower(Head(words))
             rest == count_title(Tail(words))
         IN  IF word \in POSITIVE_KEYWORDS THEN <<rest[1] + 1, rest[2]>>
             ELSE IF word \in NEGATIVE_KEYWORDS THEN <<rest[1], rest[2] + 1>>
             ELSE rest

\* the keyword counts of a list of headlines
RECURSIVE count_news(_)
count_news(news) ==
    IF news = <<>> THEN <<0, 0>>
    ELSE LET first == count_title(Head(news))
             rest  == count_news(Tail(news))
         IN  <<first[1] + rest[1], first[2] + rest[2]>>

\* max(0, min(10, score)) on a fraction of tenths
ClampFraction(x) ==
    IF x.num < 0 THEN [num |-> 0, den |-> 1]
    ELSE IF x.num > 100 * x.den THEN [num |-> 100, den |-> 1]
    ELSE x

\* _score_sentiment: (score, summary).  The score is the fraction num/den
\* of tenths; the summary f"{label} ({pos}+ / {neg}-)" is the label with
\* the two counts.
AIScorer_score_sentiment(news) ==
    IF news = <<>>
    THEN <<[num |-> 50, den |-> 1], [text |-> "No news", counts |-> <<>>]>>
    ELSE
    LET counted == count_news(news)
        positive_count == counted[1]
        negative_count == counted[2]
        total == positive_count + negative_count
        score == IF total > 0
                 THEN [num |-> 50 * total
                               + 30 * (positive_count - negative_count),
                       den |-> total]
                 ELSE [num |-> 50, den |-> 1]
        label == IF positive_count > negative_count * 2 THEN "Very positive"
                 ELSE IF positive_count > negative_count THEN "Positive"
                 ELSE IF negative_count > positive_count * 2
                      THEN "Very negative"
                 ELSE IF negative_count > positive_count THEN "Negative"
                 ELSE "Neutral"
    IN  <<ClampFraction(score),
          [text |-> label, counts |-> <<positive_count, negative_count>>]>>

AIScorer_score_quality(s, a) ==
    LET m == s.metrics
        roa == IF m.roa = None THEN 0
               ELSE IF Val(m.roa) > 150 THEN 20
               ELSE IF Val(m.roa) > 100 THEN 10
               ELSE IF Val(m.roa) < 50 THEN -10
               ELSE 0
        fcf == IF a # None /\ Truthy(Val(a).free_cash_flow)
                  /\ Val(Val(a).free_cash_flow) > 0
               THEN 10
                    + (IF Truthy(Val(a).net_income_ttm)
                          /\ Val(Val(a).free_cash_flow)
                             > Val(Val(a).net_income_ttm)
                       THEN 10 ELSE 0)
               ELSE 0
        cash == IF a # None /\ Truthy(Val(a).total_cash)
                   /\ Truthy(Val(a).total_debt)
                   /\ Val(Val(a).total_cash) > Val(Val(a).total_debt)
                THEN 10 ELSE 0
        gross == IF m.gross_margin = None THEN 0
                 ELSE IF Val(m.gross_margin) > 400 THEN 10
                 ELSE IF Val(m.gross_margin) < 200 THEN -10
                 ELSE 0
    IN  Clamp(50 + roa + fcf + cash + gross)

\* f"{x:.2f}": the value in hundredths
format_2f(x) == RoundHalfEven(x, 10)

Flag(text) == [text |-> text, arg |-> None]

\* _generate_flags raising the bearish flag on a momentum score below 6.0
\* instead of on the trend label
AIScorer_generate_flags_bearish_by_score(s, a, b) ==
    (IF b.valuation_score >= 80
     THEN <<Flag("OPPORTUNITY: Very undervalued")>> ELSE <<>>)
    \o (IF b.sentiment_score.num >= 70 * b.sentiment_score.den
           /\ b.momentum_score >= 70
        THEN <<Flag("OPPORTUNITY: Positive momentum + sentiment")>>
        ELSE <<>>)
    \o (IF b.growth_outlook = "accelerating"
        THEN <<Flag("OPPORTUNITY: Accelerating growth")>> ELSE <<>>)
    \o (IF b.momentum_trend = "oversold - potential bounce"
        THEN <<Flag("OPPORTUNITY: Technically oversold")>> ELSE <<>>)
    \o (IF a # None /\ Truthy(Val(a).peg_finviz)
           /\ Val(Val(a).peg_finviz) < 500
        THEN <<[text |-> "OPPORTUNITY: Very low PEG",
                arg  |-> Some(format_2f(Val(Val(a).peg_finviz)))]>>
        ELSE <<>>)
    \o (IF b.sentiment_score.num <= 30 * b.sentiment_score.den
        THEN <<Flag("RISK: Negative news sentiment")>> ELSE <<>>)
    \o (IF b.momentum_score < 60
        THEN <<Flag("RISK: Bearish technical trend")>> ELSE <<>>)
    \o (IF b.growth_outlook = "decelerating"
        THEN <<Flag("RISK: Decelerating growth")>> ELSE <<>>)
    \o (IF Truthy(s.metrics.debt_to_equity)
           /\ Val(s.metrics.debt_to_equity) > 1000
        THEN <<Flag("RISK: High debt levels")>> ELSE <<>>)
    \o (IF a # None /\ Val(a).earnings # None
           /\ Val(Val(a).earnings).next_earnings_date # None
        THEN <<[text |-> "EVENT: Earnings on",
                arg  |-> Val(Val(a).earnings).next_earnings_date]>>
        ELSE <<>>)

\* _generate_flags: the list of flags; the two formatted flags carry the
\* formatted value
AIScorer_generate_flags(s, a, b) ==
    (IF b.valuation_score >= 80
     THEN <<Flag("OPPORTUNITY: Very undervalued")>> ELSE <<>>)
    \o (IF b.sentiment_score.num >= 70 * b.sentiment_score.den
           /\ b.momentum_score >= 70
        THEN <<Flag("OPPORTUNITY: Positive momentum + sentiment")>>
        ELSE <<>>)
    \o (IF b.growth_outlook = "accelerating"
        THEN <<Flag("OPPORTUNITY: Accelerating growth")>> ELSE <<>>)
    \o (IF b.momentum_trend = "oversold - potential bounce"
        THEN <<Flag("OPPORTUNITY: Technically oversold")>> ELSE <<>>)
    \o (IF a # None /\ Truthy(Val(a).peg_finviz)
           /\ Val(Val(a).peg_finviz) < 500
        THEN <<[text |-> "OPPORTUNITY: Very low PEG",
                arg  |-> Some(format_2f(Val(Val(a).peg_finviz)))]>>
        ELSE <<>>)
    \o (IF b.sentiment_score.num <= 30 * b.sentiment_score.den
        THEN <<Flag("RISK: Negative news sentiment")>> ELSE <<>>)
    \o (IF b.momentum_trend = "bearish"
        THEN <<Flag("RISK: Bearish technical trend")>> ELSE <<>>)
    \o (IF b.growth_outlook = "decelerating"
        THEN <<Flag("RISK: Decelerating growth")>> ELSE <<>>)
    \o (IF Truthy(s.metrics.debt_to_equity)
           /\ Val(s.metrics.debt_to_equity) > 1000
        THEN <<Flag("RISK: High debt levels")>> ELSE <<>>)
    \o (IF a # None /\ Val(a).earnings # None
           /\ Val(Val(a).earnings).next_earnings_date # None
        THEN <<[text |-> "EVENT: Earnings on",
                arg  |-> Val(Val(a).earnings).next_earnings_date]>>
        ELSE <<>>)

\* step 5 of AIScorer.score calling _score_sentiment whatever the list is
sentiment_always_scored(a) ==
    AIScorer_score_sentiment(IF a # None THEN Val(a).news ELSE <<>>)

\* step 5 of AIScorer.score testing "if analysis:" alone
sentiment_of_any_analysis(a) ==
    IF a # None THEN AIScorer_score_sentiment(Val(a).news)
    ELSE NoNewsAvailable

\* step 5 of AIScorer.score: "if analysis and analysis.news: ... else: ..."
sentiment_or_default(a) ==
    IF a # None /\ Val(a).news # <<>>
    THEN AIScorer_score_sentiment(Val(a).news)
    ELSE NoNewsAvailable

\* AIScorer.WEIGHTS with the fundamental and valuation weights exchanged
WEIGHTS_exchanged ==
    [fundamental |-> 25, valuation |-> 20, growth |-> 20,
     momentum |-> 15, sentiment |-> 10, quality |-> 10]

\* AIScorer.WEIGHTS, in hundredths
WEIGHTS ==
    [fundamental |-> 20, valuation |-> 25, growth |-> 20,
     momentum |-> 15, sentiment |-> 10, quality |-> 10]

\* AIScorer.score
AIScorer_score(s, a, median_pe, src) ==
    LET fundamental == AIScorer_score_fundamentals(s)
        valuation   == AIScorer_score_valuation(s, a, median_pe)
        growth      == AIScorer_score_growth(s, a)
        momentum    == AIScorer_score_momentum(src)
        sentiment   == sentiment_or_default(a)
        quality     == AIScorer_score_quality(s, a)
        \* the weighted sum in thousandths, over the sentiment denominator
        den == sentiment[1].den
        total == den * (fundamental * WEIGHTS.fundamental
                        + valuation[1] * WEIGHTS.valuation
                        + growth[1] * WEIGHTS.growth
                        + momentum[1] * WEIGHTS.momentum
                        + quality * WEIGHTS.quality)
                 + sentiment[1].num * WEIGHTS.sentiment
        breakdown ==
            [fundamental_score   |-> fundamental,
             valuation_score     |-> valuation[1],
             growth_score        |-> growth[1],
             momentum_score      |-> momentum[1],
             sentiment_score     |-> sentiment[1],
             quality_score       |-> quality,
             total_score         |-> RoundHalfEven(total, 10 * den),
             sentiment_summary   |-> sentiment[2],
             momentum_trend      |-> momentum[2],
             valuation_vs_sector |-> valuation[2],
             growth_outlook      |-> growth[2],
             flags               |-> <<>>]
    IN  [breakdown EXCEPT !.flags = AIScorer_generate_flags(s, a, breakdown)]

----------------------------------------------------------------------------
(* The inputs the engines are exercised on *)

\* bounds of the enumerated inputs
MaxEntries == 3

MaxHeadlines == 2

MaxWords == 4

\* sequences over S of length at most n
RECURSIVE SeqsUpTo(_, _)
SeqsUpTo(S, n) ==
    IF n = 0 THEN {<<>>}
    ELSE LET shorter == SeqsUpTo(S, n - 1)
         IN  shorter \cup {Append(q, x) : q \in {r \in shorter : Len(r) = n - 1},
                                          x \in S}

\* Optional values over a set of numbers
Opt(S) == {None} \cup {Some(v) : v \in S}

Entry(metric, min, max, required) ==
    [metric |-> metric, min |-> min, max |-> max, required |-> required]

\* a configuration without criteria
EmptyConfig == [name |-> "empty"]

PlainStock == Stock("ACME", "Technology", "Software", StockMetrics)

NoHistory == [raises |-> "none", close |-> <<>>]

\* StockScreener.run before its first statement: no candidate fetched, no
\* Stock built (built holds the Stock objects of the pass, passing_stocks
\* and the local `stock` refer to them by their place in it)
RunNotStarted ==
    [pc |-> "start", candidates |-> <<>>, i |-> 1, total_scanned |-> 0,
     built |-> <<>>, stock |-> 0, passing_stocks |-> <<>>, errors |-> <<>>,
     result |-> None]

\* one bounded entry in one category: every shape of bounds and required,
\* on a metric of StockMetrics or on a name StockMetrics does not have
SingleRuleConfigs ==
    {[c \in {category} |-> <<Entry(metric, min, max, required)>>] :
        category \in {"valuation", "growth", "profitability", "liquidity",
                      "solvency"},
        metric \in {"pe_ratio", "dividend_yield"},
        min \in Opt({10000}), max \in Opt({20000}),
        required \in Opt(BOOLEAN)}

SingleRuleStocks ==
    {Stock("ACME", "Technology", "Software",
           [StockMetrics EXCEPT !.pe_ratio = pe]) :
        pe \in Opt({5000, 10000, 15000, 20000, 25000})}

\* the entries a category of a multi-rule configuration is written with
CategoryMenu ==
    {<<>>,
     <<Entry("pe_ratio", Some(10000), None, None)>>,
     <<Entry("roe", None, Some(200), Some(TRUE)),
       Entry("pe_ratio", Some(10000), None, None)>>}

OperabilityMenu ==
    {[exclude_sectors |-> None, exclude_industries |-> None],
     [exclude_sectors |-> Some({"Energy"}), exclude_industries |-> None],
     [exclude_sectors |-> Some({}), exclude_industries |-> Some({"Coal"})],
     [exclude_sectors |-> Some({"Energy", "Utilities"}),
      exclude_industries |-> Some({"Coal"})]}

EntryCount(cfg) ==
    Len(cfg.valuation) + Len(cfg.growth) + Len(cfg.profitability)
        + Len(cfg.liquidity) + Len(cfg.solvency)

MultiRuleConfigs ==
    {cfg \in [valuation : CategoryMenu, growth : CategoryMenu,
              profitability : CategoryMenu, liquidity : CategoryMenu,
              solvency : CategoryMenu, operability : OperabilityMenu] :
        EntryCount(cfg) <= MaxEntries}

MultiRuleStocks ==
    {Stock("ACME", sector, industry,
           [StockMetrics EXCEPT !.pe_ratio = pe, !.roe = roe]) :
        sector \in {"Technology", "Energy"},
        industry \in {"Software", "Coal"},
        pe \in Opt({5000, 15000}), roe \in Opt({150, 250})}

\* entries the engine is permissive about: one without bounds next to a
\* bounded one, and a bounded one in a category the engine does not know,
\* on a metric of StockMetrics or on a name it does not have
PermissiveConfigs ==
    {[valuation |-> <<Entry("roe", None, None, skipped),
                      Entry(named, min, Some(20000), needed)>>,
      momentum  |-> <<Entry(metric, Some(10000), None, required)>>] :
        skipped \in Opt(BOOLEAN),
        named \in {"pe_ratio", "dividend_yield"}, min \in Opt({10000}),
        needed \in Opt(BOOLEAN),
        metric \in {"pe_ratio", "rsi"}, required \in Opt(BOOLEAN)}

\* flat criteria, as Stock.passes_filter takes them, held under one
\* category of a FilterEngine configuration: one or two entries on distinct
\* names, none of them required
CriteriaEntries ==
    {Entry("pe_ratio", min, max, required) :
        min \in Opt({10000}), max \in Opt({20000}),
        required \in {None, Some(FALSE)}}
    \cup {Entry("roe", min, max, None) :
        min \in Opt({200}), max \in Opt({300})}
    \cup {Entry("dividend_yield", min, max, None) :
        min \in Opt({10}), max \in Opt({50})}

CriteriaConfigs ==
    {[valuation |-> criteria] :
        criteria \in {c \in SeqsUpTo(CriteriaEntries, 2) :
                         /\ Len(c) >= 1
                         /\ Len(c) = 2 => c[1].metric # c[2].metric}}

CriteriaStocks ==
    {Stock("ACME", "Technology", "Software",
           [StockMetrics EXCEPT !.pe_ratio = pe, !.roe = roe]) :
        pe \in Opt({5000, 10000, 15000, 20000, 25000}),
        roe \in Opt({150, 200, 250, 350})}

InitCriteria ==
    /\ config \in CriteriaConfigs
    /\ filters = build_filters(config)
    /\ weights = ScoringEngine_weights(None)
    /\ stock \in CriteriaStocks
    /\ analysis = None
    /\ sector_median_pe = None
    /\ price_source = NoHistory
    /\ evalResult = None
    /\ passResult = None
    /\ failingResult = None
    /\ baseResult = None
    /\ aiResult = None
    /\ run = RunNotStarted
    /\ filterResult = None

InitFilter ==
    /\ \/ config \in SingleRuleConfigs /\ stock \in SingleRuleStocks
       \/ config \in MultiRuleConfigs /\ stock \in MultiRuleStocks
       \/ config \in PermissiveConfigs /\ stock \in SingleRuleStocks
    /\ filters = build_filters(config)
    /\ weights = ScoringEngine_weights(None)
    /\ analysis = None
    /\ sector_median_pe = None
    /\ price_source = NoHistory
    /\ evalResult = None
    /\ passResult = None
    /\ failingResult = None
    /\ baseResult = None
    /\ aiResult = None
    /\ run = RunNotStarted
    /\ filterResult = None

\* ---- inputs of the two scoring engines: one group of fields at a time
\* ranges over its tier boundaries, the other fields stay absent

ValuationStocks ==
    {Stock("ACME", "Technology", "Software",
           [StockMetrics EXCEPT !.peg_ratio = peg, !.pe_ratio = pe]) :
        peg \in Opt({0, 400, 500, 750, 1000, 1200, 1600, 2500}),
        pe \in Opt({0, 4000, 5000, 10000, 14000, 16000, 20000, 26000, 28000,
                    30000, 40000, 50000, 55000})}

ValuationAnalyses ==
    {None} \cup
    {Some([StockAnalysis EXCEPT !.peg_finviz = peg, !.fwd_pe = fwd]) :
        peg \in Opt({0, 125, 400, 496, 600, 1600, 2500}),
        fwd \in Opt({0, 14000, 15000, 30000, 31000})}

GrowthStocks ==
    {Stock("ACME", "Technology", "Software",
           [StockMetrics EXCEPT !.eps_growth_5y = eps,
                                !.revenue_growth_5y = rev]) :
        eps \in Opt({-100, 0, 40, 50, 100, 150, 200, 250, 999, 1000, 3000,
                     30000}),
        rev \in Opt({-50, 0, 100, 101, 150, 151})}

GrowthAnalyses ==
    {None} \cup
    {Some([StockAnalysis EXCEPT !.eps_this_year = this,
                                !.eps_next_year = next]) :
        this \in Opt({-1000, 0, 300, 1000}),
        next \in Opt({-1200, 0, 800, 900, 1100})}

ProfitabilityStocks ==
    {Stock("ACME", "Technology", "Software",
           [StockMetrics EXCEPT !.roe = roe, !.net_margin = margin,
                                !.roa = roa, !.gross_margin = gross]) :
        roe \in Opt({-50, 80, 100, 150, 200, 250, 999, 1000, 12000, 30000}),
        margin \in Opt({40, 50, 100, 101, 150, 151, 200, 201}),
        roa \in Opt({40, 50, 100, 101, 150, 151}),
        gross \in Opt({190, 200, 400, 401})}

HealthStocks ==
    {Stock("ACME", "Technology", "Software",
           [StockMetrics EXCEPT !.current_ratio = current,
                                !.quick_ratio = quick,
                                !.debt_to_equity = debt]) :
        current \in Opt({900, 1000, 1500, 2000, 2500}),
        quick \in Opt({400, 500, 1000, 1500}),
        debt \in Opt({-500, 0, 200, 300, 500, 501, 1000, 1001, 1000000})}

QualityStocks ==
    {Stock("ACME", "Technology", "Software",
           [StockMetrics EXCEPT !.roa = roa, !.gross_margin = gross]) :
        roa \in Opt({160}), gross \in Opt({401})}

QualityAnalyses ==
    {None} \cup
    {Some([StockAnalysis EXCEPT !.free_cash_flow = fcf,
                                !.net_income_ttm = income,
                                !.total_cash = cash, !.total_debt = debt]) :
        fcf \in Opt({-5000, 0, 5000}),
        income \in Opt({0, 4000, 5000, 6000}),
        cash \in Opt({0, 3000, 4000}),
        debt \in Opt({0, 3000, 4000})}

\* the titles of exactly n words
TitlesOfLen(n) == {t \in SeqsUpTo(RawWords, n) : Len(t) = n}

\* headline lists: at most h titles with at most w words between them
RECURSIVE NewsUpTo(_, _)
NewsUpTo(h, w) ==
    IF h = 0 THEN {<<>>}
    ELSE {<<>>} \cup
         UNION {{<<t>> \o rest : t \in TitlesOfLen(k),
                                 rest \in NewsUpTo(h - 1, w - k)} :
                k \in 0..w}

NewsLists == NewsUpTo(MaxHeadlines, MaxWords)

\* longer lists, for keyword counts whose ratio is no whole number of
\* tenths and for the scores 7.0 and 3.0
LongNews ==
    {<<<<"Beat", "surge", "Beat", "surge">>, <<"MISS", "hold", "MISS">>,
       <<"MISS">>>>,
     <<<<"Beat", "Beat", "Beat", "surge", "surge", "MISS">>>>,
     <<<<"MISS", "MISS", "MISS">>, <<"MISS", "MISS", "Beat">>>>}

SentimentAnalyses ==
    {None} \cup {Some([StockAnalysis EXCEPT !.news = news]) :
                    news \in NewsLists \cup LongNews}

\* a price history: an optional first close, then n1 closes at a, n2 closes
\* at b and a last close c
Closes(first, a, n1, b, n2, c) ==
    first \o [i \in 1..n1 |-> a] \o [i \in 1..n2 |-> b] \o <<c>>

Histories ==
    {<<>>} \cup
    {Closes(first, a, n1, b, n2, c) :
        first \in {<<>>, <<70>>, <<130>>},
        a \in {90, 100, 110}, n1 \in {0, 8, 30, 45},
        b \in {90, 100, 110}, n2 \in {0, 5, 19, 25},
        c \in {90, 100, 110}}

\* the statement of the try block of _score_momentum that raises, if any
RaisePoints == {"none", "history", "sma", "range", "rsi"}

PriceSources ==
    {[raises |-> r, close |-> h] : r \in RaisePoints, h \in Histories}

\* several groups at once, a few values each, for the flags
FlagStocks ==
    {Stock("ACME", "Technology", "Software",
           [StockMetrics EXCEPT !.debt_to_equity = debt]) :
        debt \in Opt({0, 1400})}

FlagAnalyses ==
    {None} \cup
    {Some([StockAnalysis EXCEPT !.peg_finviz = peg,
                                !.eps_this_year = eps[1],
                                !.eps_next_year = eps[2],
                                !.news = news,
                                !.earnings = earnings]) :
        peg \in Opt({0, 400, 1600}),
        eps \in {<<None, None>>, <<Some(1000), Some(1100)>>,
                 <<Some(1000), Some(800)>>},
        news \in {<<>>, <<<<"Beat", "surge">>>>, <<<<"MISS">>, <<"hold">>>>},
        earnings \in {None, Some(EarningsInfo(None)),
                      Some(EarningsInfo(Some("2026-01-15")))}}

FlagPriceSources ==
    {NoHistory,
     [raises |-> "none", close |-> Closes(<<130>>, 90, 30, 100, 19, 110)],
     [raises |-> "none", close |-> Closes(<<>>, 110, 30, 100, 19, 90)],
     [raises |-> "none", close |-> Closes(<<>>, 100, 8, 110, 5, 90)]}

InitScoring ==
    /\ config = EmptyConfig
    /\ filters = build_filters(config)
    /\ weights = ScoringEngine_weights(None)
    /\ \/ /\ stock \in ValuationStocks
          /\ analysis \in ValuationAnalyses
          /\ sector_median_pe \in Opt({0, 20000})
          /\ price_source = NoHistory
       \/ /\ stock \in GrowthStocks
          /\ analysis \in GrowthAnalyses
          /\ sector_median_pe = None
          /\ price_source = NoHistory
       \/ /\ stock \in ProfitabilityStocks \cup HealthStocks
          /\ analysis = None
          /\ sector_median_pe = None
          /\ price_source = NoHistory
       \/ /\ stock \in QualityStocks
          /\ analysis \in QualityAnalyses
          /\ sector_median_pe = None
          /\ price_source = NoHistory
       \/ /\ stock = PlainStock
          /\ analysis \in SentimentAnalyses
          /\ sector_median_pe = None
          /\ price_source = NoHistory
       \/ /\ stock = PlainStock
          /\ analysis \in {None, Some(StockAnalysis)}
          /\ sector_median_pe = None
          /\ price_source \in PriceSources
       \/ /\ stock \in FlagStocks
          /\ analysis \in FlagAnalyses
          /\ sector_median_pe = None
          /\ price_source \in FlagPriceSources
    /\ evalResult = None
    /\ passResult = None
    /\ failingResult = None
    /\ baseResult = None
    /\ aiResult = None
    /\ run = RunNotStarted
    /\ filterResult = None

\* ---- inputs of the base scoring engine alone

\* the "weights" entry of the scoring configuration: missing, summing to
\* 1, not summing to 1, naming a category the engine does not score, and
\* summing to 1 with a negative weight (nothing validates the mapping)
WeightConfigs ==
    {None,
     Some([valuation |-> 40, growth |-> 30, profitability |-> 20,
           financial_health |-> 10]),
     Some([valuation |-> 50, growth |-> 50, profitability |-> 50,
           financial_health |-> 50]),
     Some([valuation |-> 50, momentum |-> 50]),
     Some([valuation |-> 10, growth |-> 10]),
     Some([valuation |-> 150, growth |-> -50])}

\* the two instruments of the round-trip and concrete-scenario examples
ScenarioStocks ==
    {Stock("GOOD", "Technology", "Software",
           [StockMetrics EXCEPT !.peg_ratio = Some(400),
                                !.pe_ratio = Some(15000),
                                !.roe = Some(280),
                                !.current_ratio = Some(2600),
                                !.quick_ratio = Some(1800),
                                !.debt_to_equity = Some(150),
                                !.net_margin = Some(220)]),
     Stock("POOR", "Technology", "Software",
           [StockMetrics EXCEPT !.peg_ratio = Some(1800),
                                !.pe_ratio = Some(55000),
                                !.roe = Some(80),
                                !.debt_to_equity = Some(1400),
                                !.current_ratio = Some(900)])}

BaseStocks ==
    ValuationStocks \cup GrowthStocks \cup ProfitabilityStocks
        \cup HealthStocks \cup ScenarioStocks

InitBase ==
    /\ config = EmptyConfig
    /\ filters = build_filters(config)
    /\ \E w \in WeightConfigs : weights = ScoringEngine_weights(w)
    /\ stock \in BaseStocks
    /\ analysis = None
    /\ sector_median_pe = None
    /\ price_source = NoHistory
    /\ evalResult = None
    /\ passResult = None
    /\ failingResult = None
    /\ baseResult = None
    /\ aiResult = None
    /\ run = RunNotStarted
    /\ filterResult = None

\* ---- inputs of StockScreener.run

MaxCandidates == 3

\* the symbol of the candidate at a place of the universe
Symbols == <<"AAA", "BBB", "CCC", "DDD", "EEE">>

SymbolAt(k) == Symbols[((k - 1) % Len(Symbols)) + 1]

\* the candidate dicts of a universe: each has its symbol or none
CandidateLists ==
    UNION {{[k \in 1..n |-> [symbol |-> IF present[k] THEN Some(SymbolAt(k))
                                        ELSE None]] :
               present \in [1..n -> BOOLEAN]} :
           n \in 0..MaxCandidates}

\* the `limit` argument of run
Limits == {None, Some(1)}

\* one criterion (P/E at most 20), scoring enabled, disabled or not
\* mentioned, max_results 1, 2 or left to its default
RunConfigs ==
    {[name |-> "run",
      valuation |-> <<Entry("pe_ratio", None, Some(20000), None)>>]}
    \cup
    {[name |-> "run",
      valuation |-> <<Entry("pe_ratio", None, Some(20000), None)>>,
      scoring |-> [enabled |-> enabled, weights |-> None],
      output |-> [max_results |-> most]] :
        enabled \in Opt(BOOLEAN), most \in Opt({1, 2})}

\* the Metrics Records build_stock returns: two that pass the criterion
\* with different scores, one that fails it
RunMetrics ==
    {[StockMetrics EXCEPT !.pe_ratio = Some(15000)],
     [StockMetrics EXCEPT !.pe_ratio = Some(15000),
                          !.peg_ratio = Some(400)],
     [StockMetrics EXCEPT !.pe_ratio = Some(25000)]}

\* StockScreener.__init__: the engines are built from the configuration
InitRun ==
    /\ config \in RunConfigs
    /\ filters = build_filters(config)
    /\ weights = ScoringEngine_weights(scoring_config(config).weights)
    /\ stock = PlainStock
    /\ analysis = None
    /\ sector_median_pe = None
    /\ price_source = NoHistory
    /\ evalResult = None
    /\ passResult = None
    /\ failingResult = None
    /\ baseResult = None
    /\ aiResult = None
    /\ run = RunNotStarted
    /\ filterResult = None

\* ---- inputs of the three engines called in turn on several instruments

FrameConfigs ==
    {[name |-> "frame",
      valuation |-> <<Entry("pe_ratio", Some(10000), Some(20000), required)>>,
      operability |-> [exclude_sectors |-> Some({"Energy"}),
                       exclude_industries |-> None]] :
        required \in Opt(BOOLEAN)}

FrameStocks ==
    {Stock("ACME", sector, "Software",
           [StockMetrics EXCEPT !.pe_ratio = pe, !.peg_ratio = peg]) :
        sector \in {"Technology", "Energy"},
        pe \in Opt({15000, 25000}), peg \in Opt({400})}

FrameAnalyses ==
    {None, Some([StockAnalysis EXCEPT !.peg_finviz = Some(400),
                                      !.news = <<<<"Beat", "surge">>>>])}

InitFrame ==
    /\ config \in FrameConfigs
    /\ filters = build_filters(config)
    /\ weights = ScoringEngine_weights(None)
    /\ stock \in FrameStocks
    /\ analysis \in FrameAnalyses
    /\ sector_median_pe = None
    /\ price_source \in FlagPriceSources
    /\ evalResult = None
    /\ passResult = None
    /\ failingResult = None
    /\ baseResult = None
    /\ aiResult = None
    /\ run = RunNotStarted
    /\ filterResult = None

----------------------------------------------------------------------------
(* Operations *)

\* FilterEngine.evaluate(stock)
Call_evaluate ==
    /\ evalResult' = Some(evaluate(filters, stock))
    /\ UNCHANGED <<run, filterResult, config, filters, weights, stock, analysis,
                   sector_median_pe, price_source, passResult, failingResult,
                   baseResult, aiResult>>

\* FilterEngine.passes_all(stock)
Call_passes_all ==
    /\ passResult' = Some(passes_all(filters, stock))
    /\ UNCHANGED <<run, filterResult, config, filters, weights, stock, analysis,
                   sector_median_pe, price_source, evalResult, failingResult,
                   baseResult, aiResult>>

\* stock.passes_filter(criteria), on the criteria the engine was built from
Call_passes_filter ==
    /\ filterResult' = Some(Stock_passes_filter(stock, config.valuation))
    /\ UNCHANGED <<run, config, filters, weights, stock, analysis,
                   sector_median_pe, price_source, evalResult, passResult,
                   failingResult, baseResult, aiResult>>

\* FilterEngine.get_failing_filters(stock)
Call_get_failing_filters ==
    /\ failingResult' = Some(get_failing_filters(filters, stock))
    /\ UNCHANGED <<run, filterResult, config, filters, weights, stock, analysis,
                   sector_median_pe, price_source, evalResult, passResult,
                   baseResult, aiResult>>

\* ScoringEngine.score writing the score fields of the Stock itself
Call_ScoringEngine_score_writes_stock ==
    LET scored == ScoringEngine_score(weights, stock)
    IN  /\ baseResult' = Some(scored)
        /\ stock' = [stock EXCEPT !.score = Some(scored.total),
                                  !.score_breakdown = Some(scored.breakdown)]
        /\ UNCHANGED <<run, filterResult, config, filters, weights, analysis,
                       sector_median_pe, price_source, evalResult,
                       passResult, failingResult, aiResult>>

\* ScoringEngine.score(stock)
Call_ScoringEngine_score ==
    /\ baseResult' = Some(ScoringEngine_score(weights, stock))
    /\ UNCHANGED <<run, filterResult, config, filters, weights, stock, analysis,
                   sector_median_pe, price_source, evalResult, passResult,
                   failingResult, aiResult>>

\* AIScorer.score(stock, analysis, sector_median_pe)
Call_AIScorer_score ==
    /\ aiResult' = Some(AIScorer_score(stock, analysis, sector_median_pe,
                                       price_source))
    /\ UNCHANGED <<run, filterResult, config, filters, weights, stock, analysis,
                   sector_median_pe, price_source, evalResult, passResult,
                   failingResult, baseResult>>

\* what the engines and their callers hold, left alone by run
engineVars ==
    <<config, filters, weights, stock, analysis, sector_median_pe,
      price_source, evalResult, passResult, failingResult, baseResult,
      aiResult, filterResult>>

\* run, step 1: the universe of candidates from Finviz or Yahoo, or the
\* failure of that call, then "if limit: candidates = candidates[:limit]"
Run_fetch_candidates ==
    /\ run.pc = "start"
    /\ \E limit \in Limits :
          \/ run' = [run EXCEPT !.pc = "loop",
                                !.errors = <<<<"universe fetch failed">>>>,
                                !.candidates = apply_limit(<<>>, limit)]
          \/ \E candidates \in CandidateLists :
                run' = [run EXCEPT
                           !.pc = "loop",
                           !.candidates = apply_limit(candidates, limit)]
    /\ UNCHANGED engineVars

\* the head of the for loop: the end of the list, a candidate without
\* symbol (continue), or the next candidate to build
Run_next_candidate ==
    /\ run.pc = "loop"
    /\ IF run.i > Len(run.candidates)
       THEN run' = [run EXCEPT !.pc = "finish"]
       ELSE IF run.candidates[run.i].symbol = None
       THEN run' = [run EXCEPT !.i = run.i + 1]
       ELSE run' = [run EXCEPT !.pc = "build",
                               !.total_scanned = run.total_scanned + 1]
    /\ UNCHANGED engineVars

\* build_stock with its try block around the whole loop: a failure ends
\* the loop
Run_build_stock_failure_breaks ==
    /\ run.pc = "build"
    /\ LET symbol == Val(run.candidates[run.i].symbol)
       IN  \/ run' = [run EXCEPT
                         !.pc = "loop", !.i = Len(run.candidates) + 1,
                         !.errors = Append(run.errors,
                                        error_entry(symbol, "build failed"))]
           \/ run' = [run EXCEPT !.pc = "loop", !.i = run.i + 1]
           \/ \E metrics \in RunMetrics :
                 run' = [run EXCEPT
                            !.pc = "filter",
                            !.built = Append(run.built,
                                [stock |-> Stock(symbol, "Technology",
                                                 "Software", metrics),
                                 passed |-> None,
                                 score_writes |-> 0]),
                            !.stock = Len(run.built) + 1]
    /\ UNCHANGED engineVars

\* stock = self.yahoo_client.build_stock(symbol, candidate): it raises,
\* returns None, or returns a new Stock
Run_build_stock ==
    /\ run.pc = "build"
    /\ LET symbol == Val(run.candidates[run.i].symbol)
       IN  \/ run' = [run EXCEPT
                         !.pc = "loop", !.i = run.i + 1,
                         !.errors = Append(run.errors,
                                        error_entry(symbol, "build failed"))]
           \/ run' = [run EXCEPT !.pc = "loop", !.i = run.i + 1]
           \/ \E metrics \in RunMetrics :
                 run' = [run EXCEPT
                            !.pc = "filter",
                            !.built = Append(run.built,
                                [stock |-> Stock(symbol, "Technology",
                                                 "Software", metrics),
                                 passed |-> None,
                                 score_writes |-> 0]),
                            !.stock = Len(run.built) + 1]
    /\ UNCHANGED engineVars

\* the filter's answer ignored: every Stock it returns for is scored
Run_passes_all_ignored ==
    /\ run.pc = "filter"
    /\ LET symbol == Val(run.candidates[run.i].symbol)
           passed == passes_all(filters, run.built[run.stock].stock)
       IN  \/ run' = [run EXCEPT
                         !.pc = "loop", !.i = run.i + 1,
                         !.errors = Append(run.errors,
                                        error_entry(symbol, "filter failed"))]
           \/ run' = [run EXCEPT
                         !.pc = "score",
                         !.built[run.stock].passed = Some(passed)]
    /\ UNCHANGED engineVars

\* "if self.filter_engine.passes_all(stock):", which returns or raises
Run_passes_all ==
    /\ run.pc = "filter"
    /\ LET symbol == Val(run.candidates[run.i].symbol)
           passed == passes_all(filters, run.built[run.stock].stock)
       IN  \/ run' = [run EXCEPT
                         !.pc = "loop", !.i = run.i + 1,
                         !.errors = Append(run.errors,
                                        error_entry(symbol, "filter failed"))]
           \/ run' = [run EXCEPT
                         !.pc = IF passed THEN "score" ELSE "loop",
                         !.i = IF passed THEN run.i ELSE run.i + 1,
                         !.built[run.stock].passed = Some(passed)]
    /\ UNCHANGED engineVars

\* the body of that if: the score is written when scoring is enabled (the
\* score call returns or raises), then the Stock is appended
Run_score_and_append ==
    /\ run.pc = "score"
    /\ LET symbol == Val(run.candidates[run.i].symbol)
           scored == ScoringEngine_score(weights, run.built[run.stock].stock)
       IN  IF scoring_enabled(config)
           THEN \/ run' = [run EXCEPT
                              !.pc = "loop", !.i = run.i + 1,
                              !.errors = Append(run.errors,
                                  error_entry(symbol, "scoring failed"))]
                \/ run' = [run EXCEPT
                              !.pc = "loop", !.i = run.i + 1,
                              !.built[run.stock].stock.score
                                  = Some(scored.total),
                              !.built[run.stock].stock.score_breakdown
                                  = Some(scored.breakdown),
                              !.built[run.stock].score_writes = @ + 1,
                              !.passing_stocks
                                  = Append(run.passing_stocks, run.stock)]
           ELSE run' = [run EXCEPT
                           !.pc = "loop", !.i = run.i + 1,
                           !.passing_stocks
                               = Append(run.passing_stocks, run.stock)]
    /\ UNCHANGED engineVars

\* run, step 3 to the return: sort by score when scoring is enabled, keep
\* max_results, build the ScreenerResult
Run_finish ==
    /\ run.pc = "finish"
    /\ LET sorted == IF scoring_enabled(config)
                     THEN sort_by_score(run.built, run.passing_stocks)
                     ELSE run.passing_stocks
           kept   == SubSeq(sorted, 1, Min2(max_results(config), Len(sorted)))
       IN  run' = [run EXCEPT
                      !.pc = "done",
                      !.passing_stocks = kept,
                      !.result = Some(
                          [config_name   |-> config["name"],
                           total_scanned |-> run.total_scanned,
                           total_matches |-> Len(kept),
                           stocks        |-> [k \in 1..Len(kept) |->
                                                 run.built[kept[k]].stock],
                           errors        |-> run.errors])]
    /\ UNCHANGED engineVars

NextRun ==
    \/ Run_fetch_candidates
    \/ Run_next_candidate
    \/ Run_build_stock
    \/ Run_passes_all
    \/ Run_score_and_append
    \/ Run_finish

SpecRun == InitRun /\ [][NextRun]_vars

\* the caller of the engines turns to another instrument: same engines,
\* another Stock and Analysis Record, no result yet
Caller_next_instrument ==
    /\ stock' \in FrameStocks
    /\ analysis' \in FrameAnalyses
    /\ price_source' \in FlagPriceSources
    /\ evalResult' = None
    /\ passResult' = None
    /\ failingResult' = None
    /\ baseResult' = None
    /\ aiResult' = None
    /\ UNCHANGED <<run, filterResult, config, filters, weights, sector_median_pe>>

NextFrame ==
    \/ Call_evaluate
    \/ Call_passes_all
    \/ Call_get_failing_filters
    \/ Call_ScoringEngine_score
    \/ Call_AIScorer_score
    \/ Caller_next_instrument

SpecFrame == InitFrame /\ [][NextFrame]_vars

NextFilter ==
    \/ Call_evaluate
    \/ Call_passes_all
    \/ Call_get_failing_filters

SpecFilter == InitFilter /\ [][NextFilter]_vars

NextCriteria ==
    \/ Call_passes_filter
    \/ Call_passes_all
    \/ Call_evaluate

SpecCriteria == InitCriteria /\ [][NextCriteria]_vars

NextScoring ==
    \/ Call_ScoringEngine_score
    \/ Call_AIScorer_score

SpecScoring == InitScoring /\ [][NextScoring]_vars

NextBase == Call_ScoringEngine_score

SpecBase == InitBase /\ [][NextBase]_vars

Init ==
    InitFilter \/ InitCriteria \/ InitScoring \/ InitBase \/ InitRun
        \/ InitFrame

Next == NextFilter \/ NextCriteria \/ NextScoring \/ NextRun \/ NextFrame

Spec == Init /\ [][Next]_vars

----------------------------------------------------------------------------
(* Filter engine properties *)

\* the metric value a rule on `metric` reads from the stock
MetricOf(s, metric) ==
    IF metric \in MetricNames THEN s.metrics[metric] ELSE None

\* the entries of a category that carry a bound
BoundedEntries(cfg, category) ==
    {i \in 1..Len(config_get(cfg, category)) :
        \/ config_get(cfg, category)[i].min # None
        \/ config_get(cfg, category)[i].max # None}

ExclusionList(cfg, key) ==
    IF "operability" \in DOMAIN cfg /\ cfg.operability[key] # None
    THEN Val(cfg.operability[key])
    ELSE {}

\* the names of the rules a configuration compiles to
CompiledNames(cfg) ==
    UNION {{<<RangeCategories[c],
              config_get(cfg, RangeCategories[c])[i].metric>> :
                i \in BoundedEntries(cfg, RangeCategories[c])} :
           c \in 1..Len(RangeCategories)}
    \cup (IF ExclusionList(cfg, "exclude_sectors") # {}
          THEN {<<"operability", "sector">>} ELSE {})
    \cup (IF ExclusionList(cfg, "exclude_industries") # {}
          THEN {<<"operability", "industry">>} ELSE {})

\* the place of a rule name in compiled order: category first, then the
\* entry's place in its category, sector and industry last
CompiledRank(cfg, name) ==
    IF name = <<"operability", "sector">> THEN 1000
    ELSE IF name = <<"operability", "industry">> THEN 1001
    ELSE LET c == CHOOSE k \in 1..Len(RangeCategories) :
                      RangeCategories[k] = name[1]
             i == CHOOSE k \in 1..Len(cfg[name[1]]) :
                      cfg[name[1]][k].metric = name[2]
         IN  100 * c + i

\* C2: passes_all returns the AND of all the values of evaluate (True when
\* no rule is compiled)
C2_PassesAllIsAndOfEvaluate ==
    (passResult # None /\ evalResult # None)
        => Val(passResult)
           = (\A n \in DOMAIN Val(evalResult) : Val(evalResult)[n])

\* passes_all stopped at a failing rule that is not the first one, and a
\* rule after it passes
C2_Witness ==
    /\ passResult = Some(FALSE)
    /\ evalResult # None
    /\ Len(filters) >= 3
    /\ Val(evalResult)[filters[1].name]
    /\ ~Val(evalResult)[filters[2].name]
    /\ Val(evalResult)[filters[3].name]

\* C3: a compiled range rule passes iff the metric is absent and the rule
\* is not required, or the metric is known and within the inclusive bounds;
\* required defaults to false
C3_RangeRuleSemantics ==
    evalResult # None =>
        \A c \in 1..Len(RangeCategories) :
            \A i \in BoundedEntries(config, RangeCategories[c]) :
                LET e == config[RangeCategories[c]][i]
                    v == MetricOf(stock, e.metric)
                    required == e.required = Some(TRUE)
                IN  Val(evalResult)[<<RangeCategories[c], e.metric>>]
                    = \/ v = None /\ ~required
                      \/ /\ v # None
                         /\ e.min = None \/ Val(v) >= Val(e.min)
                         /\ e.max = None \/ Val(v) <= Val(e.max)

\* evaluate ran a rule with both bounds on a value equal to the upper
\* bound, and the rule passed
C3_Witness ==
    /\ evalResult # None
    /\ Len(filters) = 1
    /\ filters[1].min_val # None
    /\ filters[1].max_val = stock.metrics.pe_ratio
    /\ filters[1].metric = "pe_ratio"
    /\ Val(evalResult)[filters[1].name]

\* C4: get_failing_filters returns the names evaluate maps to False, each
\* once, in compiled order, and evaluate has an entry for every compiled
\* rule
C4_FailingFiltersInCompiledOrder ==
    (failingResult # None /\ evalResult # None) =>
        LET failing == Val(failingResult)
            ev == Val(evalResult)
        IN  /\ DOMAIN ev = CompiledNames(config)
            /\ \A n \in DOMAIN ev : ev[n] \in BOOLEAN
            /\ {failing[i] : i \in 1..Len(failing)}
               = {n \in DOMAIN ev : ~ev[n]}
            /\ \A i, j \in 1..Len(failing) :
                   i < j => CompiledRank(config, failing[i])
                            < CompiledRank(config, failing[j])

\* three rules fail: two of one category, and the sector exclusion last
C4_Witness ==
    /\ failingResult # None
    /\ evalResult # None
    /\ Len(Val(failingResult)) >= 3
    /\ Val(failingResult)[1][1] = Val(failingResult)[2][1]
    /\ Val(failingResult)[Len(Val(failingResult))]
       = <<"operability", "sector">>

\* C5: with a sector (industry) exclusion list configured, the rule
\* operability.sector (operability.industry) fails iff the stock's sector
\* (industry) is in the list
C5_ExclusionRules ==
    evalResult # None =>
        /\ ExclusionList(config, "exclude_sectors") # {}
               => Val(evalResult)[<<"operability", "sector">>]
                  = (stock.sector
                     \notin ExclusionList(config, "exclude_sectors"))
        /\ ExclusionList(config, "exclude_industries") # {}
               => Val(evalResult)[<<"operability", "industry">>]
                  = (stock.industry
                     \notin ExclusionList(config, "exclude_industries"))

\* the sector rule fails and the industry rule passes on one stock whose
\* range rules all pass
C5_Witness ==
    /\ evalResult # None
    /\ <<"operability", "sector">> \in DOMAIN Val(evalResult)
    /\ <<"operability", "industry">> \in DOMAIN Val(evalResult)
    /\ ~Val(evalResult)[<<"operability", "sector">>]
    /\ Val(evalResult)[<<"operability", "industry">>]
    /\ Len(filters) >= 3
    /\ \A i \in 1..Len(filters) :
           filters[i].kind = "range" => Val(evalResult)[filters[i].name]

----------------------------------------------------------------------------
(* Scoring properties *)

InRange(score) == 0 <= score /\ score <= 100

\* C1: every sub-score of ScoringEngine.score and of AIScorer.score, the
\* base total under the default weights and the AI total lie in [0, 10]
C1_ScoresInRange ==
    /\ baseResult # None =>
           /\ \A cat \in DOMAIN Val(baseResult).breakdown :
                  InRange(Val(baseResult).breakdown[cat])
           /\ 0 <= Val(baseResult).total /\ Val(baseResult).total <= 1000
    /\ aiResult # None =>
           /\ InRange(Val(aiResult).fundamental_score)
           /\ InRange(Val(aiResult).valuation_score)
           /\ InRange(Val(aiResult).growth_score)
           /\ InRange(Val(aiResult).momentum_score)
           /\ InRange(Val(aiResult).quality_score)
           /\ 0 <= Val(aiResult).sentiment_score.num
           /\ Val(aiResult).sentiment_score.num
              <= 100 * Val(aiResult).sentiment_score.den
           /\ 0 <= Val(aiResult).total_score
           /\ Val(aiResult).total_score <= 1000

\* both engines scored a stock whose liquidity and debt tiers add up to
\* 10.5 before the clamp, and one whose debt-to-equity is 1000
C1_Witness ==
    /\ baseResult # None
    /\ aiResult # None
    /\ \/ /\ stock.metrics.current_ratio = Some(2500)
          /\ stock.metrics.quick_ratio = Some(1500)
          /\ stock.metrics.debt_to_equity = Some(200)
          /\ Val(baseResult).breakdown.financial_health = 100
       \/ /\ stock.metrics.debt_to_equity = Some(1000000)
          /\ stock.metrics.current_ratio = Some(900)
          /\ stock.metrics.quick_ratio = Some(400)
          /\ Val(baseResult).breakdown.financial_health = 0

\* C6: the AI total is the 2-decimal rounding of 0.20, 0.25, 0.20, 0.15,
\* 0.10, 0.10 times the six sub-scores of the same breakdown, and the six
\* weights sum to 1.00
C6_AITotalIsWeightedSum ==
    /\ WEIGHTS.fundamental + WEIGHTS.valuation + WEIGHTS.growth
           + WEIGHTS.momentum + WEIGHTS.sentiment + WEIGHTS.quality = 100
    /\ aiResult # None =>
           LET b == Val(aiResult)
               den == b.sentiment_score.den
           IN  b.total_score
               = RoundHalfEven(
                     den * (20 * b.fundamental_score + 25 * b.valuation_score
                            + 20 * b.growth_score + 15 * b.momentum_score
                            + 10 * b.quality_score)
                         + 10 * b.sentiment_score.num,
                     10 * den)

\* a breakdown whose fundamental and valuation sub-scores differ
C6_Witness ==
    /\ aiResult # None
    /\ Val(aiResult).valuation_score = 100
    /\ Val(aiResult).fundamental_score = 50
    /\ Val(aiResult).total_score = 625

\* C7: with no Analysis Record and no price history, momentum is 5.0
\* "neutral", sentiment is 5.0 "No news available", and the valuation,
\* growth and quality results are those of the metrics alone
C7_NoAuxiliaryData ==
    (aiResult # None /\ analysis = None /\ price_source = NoHistory) =>
        LET b == Val(aiResult)
            m == stock.metrics
            roa == IF m.roa = None THEN 0
                   ELSE IF Val(m.roa) > 150 THEN 20
                   ELSE IF Val(m.roa) > 100 THEN 10
                   ELSE IF Val(m.roa) < 50 THEN -10 ELSE 0
            gross == IF m.gross_margin = None THEN 0
                     ELSE IF Val(m.gross_margin) > 400 THEN 10
                     ELSE IF Val(m.gross_margin) < 200 THEN -10 ELSE 0
        IN  /\ b.momentum_score = 50
            /\ b.momentum_trend = "neutral"
            /\ b.sentiment_score = [num |-> 50, den |-> 1]
            /\ b.sentiment_summary
               = [text |-> "No news available", counts |-> <<>>]
            /\ b.quality_score = Max2(0, Min2(100, 50 + roa + gross))
            /\ b.growth_outlook \in {"stable", "strong", "weak"}
            /\ <<b.growth_score, b.growth_outlook>>
               = AIScorer_score_growth(stock, Some(StockAnalysis))
            /\ <<b.valuation_score, b.valuation_vs_sector>>
               = AIScorer_score_valuation(stock, Some(StockAnalysis),
                                          sector_median_pe)
            /\ \A i \in 1..Len(b.flags) :
                   b.flags[i].text \notin {"OPPORTUNITY: Very low PEG",
                                           "EVENT: Earnings on"}

\* AIScorer.score ran without analysis or history on a stock with metrics
C7_Witness ==
    /\ aiResult # None
    /\ analysis = None
    /\ price_source = NoHistory
    /\ stock.metrics.peg_ratio = Some(400)
    /\ Val(aiResult).valuation_score >= 80

\* a statement of the try block of _score_momentum raised
MomentumFailed ==
    \/ price_source.raises = "history"
    \/ price_source.raises # "none" /\ price_source.close # <<>>

\* C8 as stated: whatever statement of the momentum computation fails, the
\* momentum result is exactly 5.0 and "neutral"
C8_FailureGivesBaseline ==
    (aiResult # None /\ MomentumFailed) =>
        /\ Val(aiResult).momentum_score = 50
        /\ Val(aiResult).momentum_trend = "neutral"

\* C8 amended: a failure never keeps score from returning a breakdown; it
\* gives 5.0 and "neutral" when it happens before the first adjustment
\* (fetching the history, reading the closes and averages), and otherwise
\* the clamped score and the label of the adjustments made before it
C8_FailureKeepsEarlierAdjustments ==
    (aiResult # None /\ MomentumFailed) =>
        LET b == Val(aiResult)
            close == price_source.close
            trend == momentum_trend_step(close, <<50, "neutral">>)
            range == momentum_range_step(close, trend)
        IN  /\ InRange(b.momentum_score)
            /\ 0 <= b.total_score /\ b.total_score <= 1000
            /\ price_source.raises \in {"history", "sma"}
                   => b.momentum_score = 50 /\ b.momentum_trend = "neutral"
            /\ price_source.raises = "range"
                   => /\ b.momentum_score = Max2(0, Min2(100, trend[1]))
                      /\ b.momentum_trend = trend[2]
            /\ price_source.raises = "rsi"
                   => /\ b.momentum_score = Max2(0, Min2(100, range[1]))
                      /\ b.momentum_trend = range[2]

\* the RSI statements raised after the trend step had made the result
\* bullish
C8_Witness ==
    /\ aiResult # None
    /\ price_source.raises = "rsi"
    /\ price_source.close # <<>>
    /\ Val(aiResult).momentum_trend = "bullish"
    /\ Val(aiResult).momentum_score > 50

\* the flags the claim lists, each on its own condition, in the claim's
\* order
ClaimedFlags(s, a, b) ==
    (IF b.valuation_score >= 80
     THEN <<Flag("OPPORTUNITY: Very undervalued")>> ELSE <<>>)
    \o (IF b.sentiment_score.num >= 70 * b.sentiment_score.den
           /\ b.momentum_score >= 70
        THEN <<Flag("OPPORTUNITY: Positive momentum + sentiment")>>
        ELSE <<>>)
    \o (IF b.growth_outlook = "accelerating"
        THEN <<Flag("OPPORTUNITY: Accelerating growth")>> ELSE <<>>)
    \o (IF b.momentum_trend = "oversold - potential bounce"
        THEN <<Flag("OPPORTUNITY: Technically oversold")>> ELSE <<>>)
    \o (IF a # None /\ Val(a).peg_finviz # None
           /\ Val(Val(a).peg_finviz) < 500
        THEN <<[text |-> "OPPORTUNITY: Very low PEG",
                arg  |-> Some(RoundHalfEven(Val(Val(a).peg_finviz), 10))]>>
        ELSE <<>>)
    \o (IF b.sentiment_score.num <= 30 * b.sentiment_score.den
        THEN <<Flag("RISK: Negative news sentiment")>> ELSE <<>>)
    \o (IF b.momentum_trend = "bearish"
        THEN <<Flag("RISK: Bearish technical trend")>> ELSE <<>>)
    \o (IF b.growth_outlook = "decelerating"
        THEN <<Flag("RISK: Decelerating growth")>> ELSE <<>>)
    \o (IF s.metrics.debt_to_equity # None
           /\ Val(s.metrics.debt_to_equity) > 1000
        THEN <<Flag("RISK: High debt levels")>> ELSE <<>>)
    \o (IF a # None /\ Val(a).earnings # None
           /\ Val(Val(a).earnings).next_earnings_date # None
        THEN <<[text |-> "EVENT: Earnings on",
                arg  |-> Val(Val(a).earnings).next_earnings_date]>>
        ELSE <<>>)

\* C9: the flag list is exactly the flags whose condition holds, in the
\* fixed order; "Very low PEG" on an auxiliary PEG below 0.5
C9_FlagsAsListed ==
    aiResult # None =>
        Val(aiResult).flags = ClaimedFlags(stock, analysis, Val(aiResult))

\* the number of words of the headlines that case-fold into a keyword set
KeywordHits(news, keywords) ==
    Cardinality({ij \in UNION {{<<i, j>> : j \in 1..Len(news[i])} :
                               i \in 1..Len(news)} :
                    lower(news[ij[1]][ij[2]]) \in keywords})

\* C10: for a non-empty headline list the sentiment sub-score is
\* 5.0 + 3 * (pos - neg) / (pos + neg), or 5.0 without keyword hits, and
\* the summary is the first matching bucket with the two counts
C10_SentimentFormula ==
    (aiResult # None /\ analysis # None /\ Val(analysis).news # <<>>) =>
        LET b == Val(aiResult)
            pos == KeywordHits(Val(analysis).news, POSITIVE_KEYWORDS)
            neg == KeywordHits(Val(analysis).news, NEGATIVE_KEYWORDS)
            bucket == IF pos > 2 * neg THEN "Very positive"
                      ELSE IF pos > neg THEN "Positive"
                      ELSE IF neg > 2 * pos THEN "Very negative"
                      ELSE IF neg > pos THEN "Negative"
                      ELSE "Neutral"
        IN  /\ pos + neg > 0
                   => b.sentiment_score.num * (pos + neg)
                      = b.sentiment_score.den
                        * (50 * (pos + neg) + 30 * (pos - neg))
            /\ pos + neg = 0
                   => b.sentiment_score.num = 50 * b.sentiment_score.den
            /\ b.sentiment_summary
               = [text |-> bucket, counts |-> <<pos, neg>>]
            /\ (pos = 4 /\ neg = 0)
                   => /\ b.sentiment_score.num = 80 * b.sentiment_score.den
                      /\ b.sentiment_summary
                         = [text |-> "Very positive", counts |-> <<4, 0>>]

\* four positive hits, written in upper and lower case, and no negative
\* one, over two headlines that also hold a neutral keyword
C10_Witness ==
    /\ aiResult # None
    /\ analysis # None
    /\ Len(Val(analysis).news) = 2
    /\ Val(aiResult).sentiment_summary
       = [text |-> "Very positive", counts |-> <<4, 0>>]
    /\ Val(aiResult).sentiment_score.num
       = 80 * Val(aiResult).sentiment_score.den
    /\ \E i \in 1..2 : \E j \in 1..Len(Val(analysis).news[i]) :
           Val(analysis).news[i][j] = "Beat"

----------------------------------------------------------------------------
(* Base scoring engine properties *)

\* the stock with another PEG and nothing else changed
WithPeg(s, p) == [s EXCEPT !.metrics.peg_ratio = Some(p)]

\* the PEG values the valuation of the stock is compared at
PegRange ==
    {-500, 0, 1, 400, 500, 501, 750, 751, 1000, 1001, 1200, 1500, 1501,
     1800, 2500}

Clamped(x) == IF x < 0 THEN 0 ELSE IF x > 100 THEN 100 ELSE x

\* the tiers of C12, in tenths
PegTier(peg) ==
    IF peg = None THEN 0
    ELSE IF Val(peg) <= 500 THEN 30
    ELSE IF Val(peg) <= 750 THEN 20
    ELSE IF Val(peg) <= 1000 THEN 10
    ELSE IF Val(peg) > 1500 THEN -20
    ELSE 0

PeTier(pe) ==
    IF pe = None THEN 0
    ELSE IF Val(pe) >= 10000 /\ Val(pe) <= 20000 THEN 20
    ELSE IF Val(pe) >= 5000 /\ Val(pe) <= 30000 THEN 10
    ELSE IF Val(pe) > 50000 THEN -20
    ELSE 0

RoeTier(roe) ==
    IF roe = None THEN 0
    ELSE LET pct == IF Val(roe) < 1000 THEN 100 * Val(roe) ELSE Val(roe)
         IN  IF pct >= 25000 THEN 30
             ELSE IF pct >= 20000 THEN 20
             ELSE IF pct >= 15000 THEN 10
             ELSE IF pct < 10000 THEN -10
             ELSE 0

MarginBonus(margin) ==
    IF margin = None THEN 0
    ELSE IF Val(margin) > 150 THEN 10
    ELSE IF Val(margin) > 100 THEN 5
    ELSE 0

RoaBonus(roa) == IF roa # None /\ Val(roa) > 100 THEN 10 ELSE 0

\* C13: the profitability sub-score is clamp(5.0 + ROE tier + net margin
\* bonus + ROA bonus); ROE 0.28 with net margin 0.22 gives at least 8, ROE
\* 0.08 alone at most 4
C13_ProfitabilityFormula ==
    baseResult # None =>
        LET m == stock.metrics
            profitability == Val(baseResult).breakdown.profitability
        IN  /\ profitability = Clamped(50 + RoeTier(m.roe)
                                          + MarginBonus(m.net_margin)
                                          + RoaBonus(m.roa))
            /\ (m.roe = Some(280) /\ m.net_margin = Some(220))
                   => profitability >= 80
            /\ (m.roe = Some(80) /\ m.net_margin = None /\ m.roa = None)
                   => profitability <= 40

\* a ROE of 12, read as 12 percent, earned no tier; a ROE of 0.28 with a
\* net margin of 0.22 was scored 9.0
C13_Witness ==
    /\ baseResult # None
    /\ \/ /\ stock.metrics.roe = Some(12000)
          /\ stock.metrics.net_margin = None
          /\ stock.metrics.roa = None
          /\ Val(baseResult).breakdown.profitability = 50
       \/ /\ stock.metrics.roe = Some(280)
          /\ stock.metrics.net_margin = Some(220)
          /\ Val(baseResult).breakdown.profitability = 90

\* the tiers of C14
CurrentTier(current) ==
    IF current = None THEN 0
    ELSE IF Val(current) >= 2500 THEN 20
    ELSE IF Val(current) >= 2000 THEN 15
    ELSE IF Val(current) >= 1500 THEN 10
    ELSE IF Val(current) < 1000 THEN -20
    ELSE 0

QuickTier(quick) ==
    IF quick = None THEN 0
    ELSE IF Val(quick) >= 1500 THEN 15
    ELSE IF Val(quick) >= 1000 THEN 10
    ELSE IF Val(quick) < 500 THEN -10
    ELSE 0

DebtTier(debt) ==
    IF debt = None THEN 0
    ELSE IF Val(debt) <= 200 THEN 20
    ELSE IF Val(debt) <= 300 THEN 15
    ELSE IF Val(debt) <= 500 THEN 10
    ELSE IF Val(debt) > 1000 THEN -20
    ELSE 0

\* C14: the financial_health sub-score is clamp(5.0 + current-ratio tier +
\* quick-ratio tier + debt-to-equity tier); 2.6 / 1.8 / 0.15 gives at least
\* 9, current ratio 0.9 with debt-to-equity 1.4 at most 1
C14_FinancialHealthFormula ==
    baseResult # None =>
        LET m == stock.metrics
            health == Val(baseResult).breakdown.financial_health
        IN  /\ health = Clamped(50 + CurrentTier(m.current_ratio)
                                   + QuickTier(m.quick_ratio)
                                   + DebtTier(m.debt_to_equity))
            /\ (/\ m.current_ratio = Some(2600)
                /\ m.quick_ratio = Some(1800)
                /\ m.debt_to_equity = Some(150)) => health >= 90
            /\ (/\ m.current_ratio = Some(900)
                /\ m.quick_ratio = None
                /\ m.debt_to_equity = Some(1400)) => health <= 10

\* a debt-to-equity of exactly 0.2 earned the top tier, alone
C14_Witness ==
    /\ baseResult # None
    /\ stock.metrics.debt_to_equity = Some(200)
    /\ stock.metrics.current_ratio = None
    /\ stock.metrics.quick_ratio = None
    /\ Val(baseResult).breakdown.financial_health = 70

\* the tiers of C15: a growth of magnitude below 1 is a fraction, any other
\* one is a percentage already
EpsGrowthTier(eps) ==
    IF eps = None THEN 0
    ELSE LET pct == IF -1000 < Val(eps) /\ Val(eps) < 1000
                    THEN 100 * Val(eps) ELSE Val(eps)
         IN  IF pct >= 20000 THEN 30
             ELSE IF pct >= 15000 THEN 20
             ELSE IF pct >= 10000 THEN 10
             ELSE IF pct < 5000 THEN -10
             ELSE 0

RevenueBonus(rev) == IF rev # None /\ Val(rev) > 100 THEN 10 ELSE 0

\* C15: the growth sub-score is clamp(5.0 + tier of the 5-year EPS growth
\* normalized to percent + 1 if the 5-year revenue growth exceeds 0.10); an
\* EPS growth of 3 is scored as 3 percent
C15_GrowthFormula ==
    baseResult # None =>
        LET m == stock.metrics
            growth == Val(baseResult).breakdown.growth
        IN  /\ growth = Clamped(50 + EpsGrowthTier(m.eps_growth_5y)
                                   + RevenueBonus(m.revenue_growth_5y))
            /\ (m.eps_growth_5y = Some(3000) /\ m.revenue_growth_5y = None)
                   => growth = 40

\* the sum of the weights of a mapping, in hundredths
RECURSIVE SumOfWeights(_, _)
SumOfWeights(w, cats) ==
    IF cats = {} THEN 0
    ELSE LET cat == CHOOSE c \in cats : TRUE
         IN  w[cat] + SumOfWeights(w, cats \ {cat})

\* the sub-score of a configured weight key, 0 for a key the engine does
\* not score
SubScore(breakdown, cat) ==
    IF cat \in DOMAIN breakdown THEN breakdown[cat] ELSE 0

\* the sum over the configured keys of weight x sub-score, in thousandths
RECURSIVE SumOfProducts(_, _, _)
SumOfProducts(w, breakdown, cats) ==
    IF cats = {} THEN 0
    ELSE LET cat == CHOOSE c \in cats : TRUE
         IN  w[cat] * SubScore(breakdown, cat)
             + SumOfProducts(w, breakdown, cats \ {cat})

\* the nearest whole number of hundredths to n thousandths, ties to even
Round2(n) ==
    LET low == CHOOSE q \in -2000..2000 : 10 * q <= n /\ n < 10 * (q + 1)
    IN  IF n - 10 * low < 5 THEN low
        ELSE IF n - 10 * low > 5 THEN low + 1
        ELSE IF low % 2 = 0 THEN low ELSE low + 1

\* the total is the rounding of the sum over the configured keys of the
\* weights as given times the sub-scores; 0.25 each when none is configured
TotalIsWeightedSum ==
    baseResult # None =>
        /\ Val(baseResult).total
           = Round2(SumOfProducts(weights, Val(baseResult).breakdown,
                                  DOMAIN weights))
        /\ weights \in {ScoringEngine_weights(w) : w \in WeightConfigs}

\* C16 as stated: the total is that weighted sum, and it lies in [0, 10]
\* whenever the configured weights sum to 1
C16_TotalBoundedWhenWeightsSumToOne ==
    /\ TotalIsWeightedSum
    /\ (baseResult # None /\ SumOfWeights(weights, DOMAIN weights) = 100)
           => (0 <= Val(baseResult).total /\ Val(baseResult).total <= 1000)

\* C16 amended: the total is that weighted sum, and it lies in [0, 10]
\* whenever the configured weights sum to 1 and none of them is negative
C16_TotalBoundedWhenWeightsNonNegative ==
    /\ TotalIsWeightedSum
    /\ (/\ baseResult # None
        /\ SumOfWeights(weights, DOMAIN weights) = 100
        /\ \A cat \in DOMAIN weights : weights[cat] >= 0)
           => (0 <= Val(baseResult).total /\ Val(baseResult).total <= 1000)

\* weights 0.4, 0.3, 0.2, 0.1 gave the first example instrument
\* 4.0 + 1.5 + 1.8 + 1.0 = 8.3, and weights of 0.5 each gave it more than 10
C16_Witness ==
    /\ baseResult # None
    /\ stock.symbol = "GOOD"
    /\ \/ weights.valuation = 40 /\ Val(baseResult).total = 830
       \/ weights.valuation = 50 /\ "growth" \in DOMAIN weights
          /\ Val(baseResult).total > 1000

----------------------------------------------------------------------------
(* Orchestrator properties *)

\* what holds of every Stock of a pass whatever the configuration: its
\* score fields are written at most once, together, only after passes_all
\* returned True for it, and never when passes_all returned False
WrittenAtMostOnceAfterApproval ==
    \A k \in DOMAIN run.built :
        LET b == run.built[k]
        IN  /\ b.score_writes <= 1
            /\ b.score_writes > 0 => b.passed = Some(TRUE)
            /\ (b.stock.score # None) = (b.score_writes = 1)
            /\ (b.stock.score_breakdown # None) = (b.score_writes = 1)
            /\ b.score_writes = 1
                   => LET scored == ScoringEngine_score(weights,
                                        [b.stock EXCEPT
                                            !.score = None,
                                            !.score_breakdown = None])
                      IN  /\ b.stock.score = Some(scored.total)
                          /\ b.stock.score_breakdown = Some(scored.breakdown)

\* the score call for the Stock at place k of built raised
ScoringFailed(k) ==
    \E e \in 1..Len(run.errors) :
        run.errors[e] = error_entry(run.built[k].stock.symbol,
                                    "scoring failed")

\* C17 as stated: at most once and only after approval, and once the pass
\* is over every Stock passes_all approved has been written exactly once
C17_ScoreWrittenExactlyOnce ==
    /\ WrittenAtMostOnceAfterApproval
    /\ run.pc = "done" =>
           \A k \in DOMAIN run.built :
               run.built[k].passed = Some(TRUE)
                   => run.built[k].score_writes = 1

\* C17 amended: at most once and only after approval; exactly once for an
\* approved Stock when scoring is enabled and the score call returned,
\* never when scoring is disabled or not mentioned in the configuration
C17_ScoreWrittenOnceWhenEnabled ==
    /\ WrittenAtMostOnceAfterApproval
    /\ run.pc = "done" =>
           \A k \in DOMAIN run.built :
               run.built[k].score_writes
               = IF /\ run.built[k].passed = Some(TRUE)
                    /\ scoring_enabled(config)
                    /\ ~ScoringFailed(k)
                 THEN 1 ELSE 0

\* a pass ended with one approved Stock scored and one rejected Stock
\* without score
C17_Witness ==
    /\ run.pc = "done"
    /\ \E k \in DOMAIN run.built :
          /\ run.built[k].passed = Some(TRUE)
          /\ run.built[k].score_writes = 1
          /\ run.built[k].stock.score = Some(625)
    /\ \E k \in DOMAIN run.built :
          /\ run.built[k].passed = Some(FALSE)
          /\ run.built[k].stock.score = None

----------------------------------------------------------------------------
(* Frame properties *)

\* a call of one of the five engine methods has just returned a result
ResultReturned ==
    \/ evalResult' # None /\ evalResult' # evalResult
    \/ passResult' # None /\ passResult' # passResult
    \/ failingResult' # None /\ failingResult' # failingResult
    \/ baseResult' # None /\ baseResult' # baseResult
    \/ aiResult' # None /\ aiResult' # aiResult

\* every result present is the one engines fresh from the configuration
\* return for the instrument, whatever was called before on this and on
\* other instruments
ResultsOfFreshEngines ==
    LET fresh == build_filters(config)
    IN  /\ evalResult # None => Val(evalResult) = evaluate(fresh, stock)
        /\ passResult # None => Val(passResult) = passes_all(fresh, stock)
        /\ failingResult # None
               => Val(failingResult) = get_failing_filters(fresh, stock)
        /\ baseResult # None
               => Val(baseResult)
                  = ScoringEngine_score(ScoringEngine_weights(None), stock)
        /\ aiResult # None
               => Val(aiResult) = AIScorer_score(stock, analysis,
                                                 sector_median_pe,
                                                 price_source)

\* C18: a call of evaluate, passes_all, get_failing_filters,
\* ScoringEngine.score or AIScorer.score leaves the Stock (metrics, score
\* and score_breakdown), the Analysis Record, the compiled rules, the
\* weights and the configuration as they were, and every result is the one
\* of fresh engines under every interleaving of calls and instruments
C18_EngineCallsLeaveInputsUnchanged ==
    /\ [][ResultReturned =>
             /\ stock' = stock
             /\ analysis' = analysis
             /\ filters' = filters
             /\ weights' = weights
             /\ config' = config]_vars
    /\ []ResultsOfFreshEngines

\* all five methods returned for one instrument, whose score fields are
\* still unset
C18_Witness ==
    /\ evalResult # None
    /\ passResult = Some(TRUE)
    /\ failingResult = Some(<<>>)
    /\ baseResult # None
    /\ aiResult # None
    /\ stock.metrics.pe_ratio = Some(15000)
    /\ stock.score = None
    /\ stock.score_breakdown = None
    /\ analysis # None

----------------------------------------------------------------------------
(* Permissive construction: src/core/filters.py *)

IsRangeCategory(category) ==
    \E c \in 1..Len(RangeCategories) : RangeCategories[c] = category

\* the categories of a configuration that hold criteria entries
CriteriaCategories(cfg) ==
    {category \in DOMAIN cfg :
        IsRangeCategory(category) \/ category = "momentum"}

Unbounded(entry) == entry.min = None /\ entry.max = None

IsBounded(entry) == ~Unbounded(entry)

\* the configuration with the entries kept that satisfy Keep(category, entry)
Restricted(cfg, Keep(_, _)) ==
    [key \in DOMAIN cfg |->
        IF key \in CriteriaCategories(cfg)
        THEN SelectSeq(cfg[key], LAMBDA entry : Keep(key, entry))
        ELSE cfg[key]]

KeepBounded(category, entry) == IsBounded(entry)

KeepRangeCategory(category, entry) == IsRangeCategory(category)

\* the three results are those of an engine built from cfg
ResultsAsFor(cfg) ==
    LET fs == build_filters(cfg)
    IN  /\ evalResult # None => Val(evalResult) = evaluate(fs, stock)
        /\ passResult # None => Val(passResult) = passes_all(fs, stock)
        /\ failingResult # None
               => Val(failingResult) = get_failing_filters(fs, stock)

Listed(names, name) == \E k \in 1..Len(names) : names[k] = name

\* C19: an entry of a criteria category without min and without max is not
\* compiled, whatever its required flag: no rule of its name is in
\* self.filters, in evaluate or in the failing-rule list, and the three
\* results are those of the configuration without such entries
C19_UnboundedEntryNeverCompiled ==
    /\ \A c \in 1..Len(RangeCategories) :
           LET category == RangeCategories[c]
               entries == config_get(config, category)
           IN  \A i \in 1..Len(entries) :
                   Unbounded(entries[i]) =>
                       LET name == <<category, entries[i].metric>>
                       IN  /\ \A k \in 1..Len(filters) :
                                  filters[k].name # name
                           /\ evalResult # None
                                  => name \notin DOMAIN Val(evalResult)
                           /\ failingResult # None
                                  => ~Listed(Val(failingResult), name)
    /\ ResultsAsFor(Restricted(config, KeepBounded))

\* an entry without bounds says required=true on a metric the stock does
\* not have, next to a bounded rule that passes: passes_all is True and no
\* rule fails
C19_Witness ==
    /\ "valuation" \in DOMAIN config
    /\ Len(config.valuation) = 2
    /\ Unbounded(config.valuation[1])
    /\ config.valuation[1].required = Some(TRUE)
    /\ getattr(stock.metrics, config.valuation[1].metric) = None
    /\ config.valuation[2].metric = "pe_ratio"
    /\ stock.metrics.pe_ratio # None
    /\ passResult = Some(TRUE)
    /\ failingResult = Some(<<>>)
    /\ evalResult # None
    /\ DOMAIN Val(evalResult) = {<<"valuation", "pe_ratio">>}

\* the rule of a bounded entry reads an unknown metric: it passes unless
\* the entry says required=true, on every stock
UnknownMetricRule(category, entry) ==
    LET name == <<category, entry.metric>>
    IN  /\ \E k \in 1..Len(filters) : filters[k].name = name
        /\ evalResult # None
               => /\ name \in DOMAIN Val(evalResult)
                  /\ Val(evalResult)[name] = (entry.required # Some(TRUE))
        /\ (passResult # None /\ entry.required = Some(TRUE))
               => ~Val(passResult)
        /\ failingResult # None
               => (Listed(Val(failingResult), name)
                   = (entry.required = Some(TRUE)))

\* C20 as stated: every bounded entry naming an unknown category or an
\* unknown metric compiles to a rule <category>.<metric> that reads an
\* unknown metric, passing unless required and failing every stock if
\* required
C20_UnknownNamesCompileToRule ==
    \A category \in CriteriaCategories(config) :
        \A i \in 1..Len(config[category]) :
            LET entry == config[category][i]
            IN  (/\ IsBounded(entry)
                 /\ \/ ~IsRangeCategory(category)
                    \/ entry.metric \notin MetricNames)
                    => UnknownMetricRule(category, entry)

\* C20, amended: a bounded entry of one of the five range categories on a
\* name StockMetrics does not have compiles to such a rule; an entry of any
\* other category compiles to nothing, whatever its required flag: no rule
\* of that category is in self.filters, in evaluate or in the failing-rule
\* list, and the three results are those of the configuration without it
C20_UnknownMetricCompiledUnknownCategoryIgnored ==
    /\ \A category \in CriteriaCategories(config) :
           \A i \in 1..Len(config[category]) :
               LET entry == config[category][i]
               IN  IF IsRangeCategory(category)
                   THEN (IsBounded(entry) /\ entry.metric \notin MetricNames)
                            => UnknownMetricRule(category, entry)
                   ELSE /\ \A k \in 1..Len(filters) :
                               filters[k].name[1] # category
                        /\ evalResult # None
                               => \A name \in DOMAIN Val(evalResult) :
                                      name[1] # category
                        /\ failingResult # None
                               => \A k \in 1..Len(Val(failingResult)) :
                                      Val(failingResult)[k][1] # category
    /\ ResultsAsFor(Restricted(config, KeepRangeCategory))

\* one configuration with a required bounded entry on an unknown metric
\* under valuation, which fails a stock, and a required bounded entry
\* under the unknown category momentum, which fails nothing
C20_Witness ==
    /\ "momentum" \in DOMAIN config
    /\ IsBounded(config.momentum[1])
    /\ config.momentum[1].required = Some(TRUE)
    /\ config.momentum[1].metric \notin MetricNames
    /\ config.valuation[2].metric = "dividend_yield"
    /\ config.valuation[2].required = Some(TRUE)
    /\ evalResult # None
    /\ DOMAIN Val(evalResult) = {<<"valuation", "dividend_yield">>}
    /\ passResult = Some(FALSE)
    /\ failingResult = Some(<<<<"valuation", "dividend_yield">>>>)

----------------------------------------------------------------------------
(* Stock.passes_filter: src/models/stock.py *)

WithinBounds(value, entry) ==
    /\ entry.min = None \/ value >= Val(entry.min)
    /\ entry.max = None \/ value <= Val(entry.max)

\* C21: Stock.passes_filter(criteria) is True iff every criterion whose
\* metric has a value on the stock has that value within its inclusive
\* bounds (criteria on metrics without a value, or on names StockMetrics
\* does not have, are skipped), and it equals passes_all of the engine
\* compiled from the same criteria, none of them required
C21_PassesFilterIsRangeRulesNotRequired ==
    filterResult # None =>
        /\ Val(filterResult)
           = (\A i \in 1..Len(config.valuation) :
                 LET entry == config.valuation[i]
                     value == MetricOf(stock, entry.metric)
                 IN  value = None \/ WithinBounds(Val(value), entry))
        /\ passResult # None => Val(filterResult) = Val(passResult)
        /\ evalResult # None
               => Val(filterResult)
                  = (\A n \in DOMAIN Val(evalResult) : Val(evalResult)[n])

\* two criteria: the first on a metric the stock has no value for, the
\* second on a value above its max; passes_filter and passes_all are False
C21_Witness ==
    /\ filterResult = Some(FALSE)
    /\ passResult = Some(FALSE)
    /\ Len(config.valuation) = 2
    /\ IsBounded(config.valuation[1])
    /\ MetricOf(stock, config.valuation[1].metric) = None
    /\ config.valuation[2].metric = "pe_ratio"
    /\ config.valuation[2].max # None
    /\ stock.metrics.pe_ratio # None
    /\ Val(stock.metrics.pe_ratio) > Val(config.valuation[2].max)

----------------------------------------------------------------------------
(* AI valuation, growth and quality rules: src/analysis/ai_scoring.py *)

\* a field of the Optional StockAnalysis; None without an analysis
AnalysisField(a, field) == IF a = None THEN None ELSE Val(a)[field]

\* the PEG the valuation rule is about: the auxiliary one when it exists,
\* else the primary one
PreferredPeg(s, a) ==
    IF AnalysisField(a, "peg_finviz") # None
    THEN AnalysisField(a, "peg_finviz")
    ELSE s.metrics.peg_ratio

\* the reference valuation result <<score, label>>, in tenths
ValuationReference(s, a, median_pe) ==
    LET peg == PreferredPeg(s, a)
        pe == s.metrics.pe_ratio
        fwd == AnalysisField(a, "fwd_pe")
        s1 == IF peg = None THEN <<50, "fair">>
              ELSE IF Val(peg) <= 500 THEN <<80, "very cheap">>
              ELSE IF Val(peg) <= 750 THEN <<70, "cheap">>
              ELSE IF Val(peg) <= 1000 THEN <<60, "fair">>
              ELSE IF Val(peg) > 2000 THEN <<30, "very expensive">>
              ELSE IF Val(peg) > 1500 THEN <<40, "expensive">>
              ELSE <<50, "fair">>
        s2 == IF pe = None \/ median_pe = None THEN s1
              ELSE IF 10 * Val(pe) < 7 * Val(median_pe)
                   THEN <<s1[1] + 20, "cheap vs sector">>
              ELSE IF 10 * Val(pe) < 9 * Val(median_pe)
                   THEN <<s1[1] + 10, s1[2]>>
              ELSE IF 10 * Val(pe) > 15 * Val(median_pe)
                   THEN <<s1[1] - 20, s1[2]>>
              ELSE IF 10 * Val(pe) > 13 * Val(median_pe)
                   THEN <<s1[1] - 10, s1[2]>>
              ELSE s1
        s3 == IF fwd = None THEN s2[1]
              ELSE IF Val(fwd) < 15000 THEN s2[1] + 10
              ELSE IF Val(fwd) > 30000 THEN s2[1] - 10
              ELSE s2[1]
    IN  <<Clamped(s3), s2[2]>>

\* C22: the AI valuation sub-score and label are the reference ones: PEG
\* tiers (<=0.5 +3 "very cheap", <=0.75 +2 "cheap", <=1 +1, >2 -2 "very
\* expensive", >1.5 -1 "expensive") on the preferred PEG, P/E over sector
\* median tiers (<0.7 +2 "cheap vs sector", <0.9 +1, >1.5 -2, >1.3 -1),
\* forward P/E <15 +1, >30 -1, clamped to [0, 10]; stated for a sector
\* median that is absent or positive, where the ratio exists
C22_ValuationReference ==
    (aiResult # None /\ sector_median_pe # Some(0)) =>
        /\ Val(aiResult).valuation_score
           = ValuationReference(stock, analysis, sector_median_pe)[1]
        /\ Val(aiResult).valuation_vs_sector
           = ValuationReference(stock, analysis, sector_median_pe)[2]

\* the reference growth result <<score, outlook>>, in tenths
GrowthReference(s, a) ==
    LET eps == s.metrics.eps_growth_5y
        rev == s.metrics.revenue_growth_5y
        this == AnalysisField(a, "eps_this_year")
        next == AnalysisField(a, "eps_next_year")
        percent == IF Val(eps) < 1000 THEN 100 * Val(eps) ELSE Val(eps)
        s1 == IF eps = None THEN <<50, "stable">>
              ELSE IF percent >= 25000 THEN <<70, "strong">>
              ELSE IF percent >= 15000 THEN <<65, "stable">>
              ELSE IF percent >= 10000 THEN <<60, "stable">>
              ELSE IF percent < 5000 THEN <<40, "weak">>
              ELSE <<50, "stable">>
        s2 == IF this = None \/ next = None THEN s1
              ELSE IF Val(next) > Val(this)
                   THEN <<s1[1] + 15, "accelerating">>
              ELSE IF 10 * Val(next) < 9 * Val(this)
                   THEN <<s1[1] - 10, "decelerating">>
              ELSE s1
        bonus == IF this # None /\ Val(this) > 300 THEN 10 ELSE 0
        revenue == IF rev = None THEN 0
                   ELSE IF Val(rev) > 150 THEN 10
                   ELSE IF Val(rev) < 0 THEN -10
                   ELSE 0
    IN  <<Clamped(s2[1] + bonus + revenue), s2[2]>>

\* C23: the AI growth sub-score and outlook are the reference ones: EPS
\* growth tiers in percent (>=25 +2 "strong", >=15 +1.5, >=10 +1, <5 -1
\* "weak"), with both EPS estimates present next > this +1.5
\* "accelerating", else next < 0.9 x this -1 "decelerating", this-year
\* estimate > 0.3 +1, revenue growth > 0.15 +1, < 0 -1, clamped to [0, 10]
C23_GrowthReference ==
    aiResult # None =>
        /\ Val(aiResult).growth_score = GrowthReference(stock, analysis)[1]
        /\ Val(aiResult).growth_outlook = GrowthReference(stock, analysis)[2]

\* the reference quality score, in tenths
QualityReference(s, a) ==
    LET roa == s.metrics.roa
        gross == s.metrics.gross_margin
        fcf == AnalysisField(a, "free_cash_flow")
        income == AnalysisField(a, "net_income_ttm")
        cash == AnalysisField(a, "total_cash")
        debt == AnalysisField(a, "total_debt")
        positive == fcf # None /\ Val(fcf) > 0
    IN  Clamped(50
                + (IF roa = None THEN 0
                   ELSE IF Val(roa) > 150 THEN 20
                   ELSE IF Val(roa) > 100 THEN 10
                   ELSE IF Val(roa) < 50 THEN -10
                   ELSE 0)
                + (IF positive THEN 10 ELSE 0)
                + (IF positive /\ income # None /\ Val(fcf) > Val(income)
                   THEN 10 ELSE 0)
                + (IF cash # None /\ debt # None /\ Val(cash) > Val(debt)
                   THEN 10 ELSE 0)
                + (IF gross = None THEN 0
                   ELSE IF Val(gross) > 400 THEN 10
                   ELSE IF Val(gross) < 200 THEN -10
                   ELSE 0))

\* C24: the AI quality sub-score is clamp(5.0 + ROA tier + 1 for a positive
\* free cash flow + 1 more when it exceeds trailing net income + 1 when
\* cash and debt are both present and cash > debt + gross-margin tier),
\* every absent input contributing 0
C24_QualityReference ==
    aiResult # None =>
        Val(aiResult).quality_score = QualityReference(stock, analysis)

\* C25: a numeric input of AIScorer whose value is 0 is a known value: a
\* preferred PEG of 0 is in the <= 0.5 tier ("very cheap", unless the
\* sector ratio relabels it), a P/E of 0 with a positive sector median is
\* "cheap vs sector", total debt 0 under a positive total cash and
\* trailing net income 0 under a positive free cash flow earn their
\* quality points, and a this-year EPS estimate of 0 under a positive
\* next-year estimate is "accelerating"
C25_ZeroIsKnown ==
    aiResult # None =>
        LET b == Val(aiResult)
            debt == AnalysisField(analysis, "total_debt")
            cash == AnalysisField(analysis, "total_cash")
            income == AnalysisField(analysis, "net_income_ttm")
            fcf == AnalysisField(analysis, "free_cash_flow")
            this == AnalysisField(analysis, "eps_this_year")
            next == AnalysisField(analysis, "eps_next_year")
        IN  /\ PreferredPeg(stock, analysis) = Some(0)
                   => b.valuation_vs_sector
                      \in {"very cheap", "cheap vs sector"}
            /\ (/\ stock.metrics.pe_ratio = Some(0)
                /\ sector_median_pe # None
                /\ Val(sector_median_pe) > 0)
                   => b.valuation_vs_sector = "cheap vs sector"
            /\ (\/ debt = Some(0) /\ cash # None /\ Val(cash) > 0
                \/ income = Some(0) /\ fcf # None /\ Val(fcf) > 0)
                   => b.quality_score = QualityReference(stock, analysis)
            /\ (this = Some(0) /\ next # None /\ Val(next) > 0)
                   => b.growth_outlook = "accelerating"

----------------------------------------------------------------------------
(* Sentiment without headlines: src/analysis/ai_scoring.py *)

Neutral5 == [num |-> 50, den |-> 1]

\* C26 as stated: AIScorer.score gives 5.0 and "No news available" without
\* an analysis, and 5.0 and "No news" on an analysis whose headline list
\* is empty
C26_EmptyListSaysNoNews ==
    aiResult # None =>
        /\ analysis = None
               => /\ Val(aiResult).sentiment_score = Neutral5
                  /\ Val(aiResult).sentiment_summary.text
                     = "No news available"
        /\ (analysis # None /\ Val(analysis).news = <<>>)
               => /\ Val(aiResult).sentiment_score = Neutral5
                  /\ Val(aiResult).sentiment_summary.text = "No news"

\* C26, amended: AIScorer.score gives 5.0 and "No news available" both
\* without an analysis and on an analysis whose headline list is empty,
\* and never "No news"; "No news" (with 5.0) is what _score_sentiment
\* itself returns for an empty list, a call score does not make
C26_NoHeadlinesSaysNoNewsAvailable ==
    /\ aiResult # None =>
           /\ (analysis = None \/ Val(analysis).news = <<>>)
                  => /\ Val(aiResult).sentiment_score = Neutral5
                     /\ Val(aiResult).sentiment_summary.text
                        = "No news available"
           /\ Val(aiResult).sentiment_summary.text # "No news"
    /\ AIScorer_score_sentiment(<<>>)
       = <<Neutral5, [text |-> "No news", counts |-> <<>>]>>

\* score was called with an analysis that carries other data and an empty
\* headline list
C26_Witness ==
    /\ aiResult # None
    /\ analysis # None
    /\ Val(analysis).news = <<>>
    /\ Val(analysis).peg_finviz # None
    /\ Val(aiResult).sentiment_summary.text = "No news available"

----------------------------------------------------------------------------
(* Momentum rule: src/analysis/ai_scoring.py *)

\* the sum of the last `window` values of a series that has that many
LastSum(series, window) ==
    SumRange(series, Len(series) - window + 1, Len(series))

\* the rises (falls) between consecutive closes; nothing before the first
Rises(close) ==
    [i \in 1..Len(close) |->
        IF i > 1 /\ close[i] > close[i - 1] THEN close[i] - close[i - 1]
        ELSE 0]

Falls(close) ==
    [i \in 1..Len(close) |->
        IF i > 1 /\ close[i] < close[i - 1] THEN close[i - 1] - close[i]
        ELSE 0]

\* the reference momentum result <<score, trend>> on a non-empty history,
\* in tenths.  An average over more observations than the history has
\* does not exist and matches no comparison; SMA50 is SMA20 below 50
\* observations, so SMA20 is then neither above nor below it.
MomentumReference(close) ==
    LET n == Len(close)
        price == close[n]
        above == n >= 20 /\ 20 * price > LastSum(close, 20)
        below == n >= 20 /\ 20 * price < LastSum(close, 20)
        rising == n >= 50
                  /\ 50 * LastSum(close, 20) > 20 * LastSum(close, 50)
        falling == n >= 50
                   /\ 50 * LastSum(close, 20) < 20 * LastSum(close, 50)
        trend == IF above /\ rising THEN <<20, "bullish">>
                 ELSE IF above THEN <<10, "slightly bullish">>
                 ELSE IF below /\ falling THEN <<-20, "bearish">>
                 ELSE IF below THEN <<-10, "slightly bearish">>
                 ELSE <<0, "neutral">>
        high == CHOOSE x \in {close[i] : i \in 1..n} :
                    \A i \in 1..n : x >= close[i]
        low == CHOOSE x \in {close[i] : i \in 1..n} :
                   \A i \in 1..n : x <= close[i]
        \* position = (price - low) / (high - low), in tenths of the range
        position == IF high = low THEN 0
                    ELSE IF 10 * (price - low) < 3 * (high - low) THEN 10
                    ELSE IF 10 * (price - low) > 9 * (high - low) THEN -5
                    ELSE 0
        gain == LastSum(Rises(close), 14)
        loss == LastSum(Falls(close), 14)
        \* RSI = 100 * gain / (gain + loss)
        oversold == n >= 14 /\ loss > 0 /\ 100 * gain < 30 * (gain + loss)
        overbought == n >= 14 /\ loss > 0
                      /\ 100 * gain > 70 * (gain + loss)
        rsi == IF oversold THEN 15 ELSE IF overbought THEN -5 ELSE 0
    IN  <<Clamped(50 + trend[1] + position + rsi),
          IF oversold THEN "oversold - potential bounce" ELSE trend[2]>>

\* C27: on a non-empty price history whose reading does not fail, the
\* momentum score and trend are the reference ones: 5.0 and "neutral",
\* the first matching price/SMA20/SMA50 ordering, the range-position
\* adjustment (skipped when max = min), the RSI adjustment with its label
\* override (skipped when the average loss is 0), clamped to [0, 10]
C27_MomentumReference ==
    (aiResult # None /\ price_source.raises = "none"
        /\ price_source.close # <<>>) =>
        /\ Val(aiResult).momentum_score
           = MomentumReference(price_source.close)[1]
        /\ Val(aiResult).momentum_trend
           = MomentumReference(price_source.close)[2]

\* a history of 50 closes or more whose price is below a falling SMA20,
\* near its low and oversold: 5.0 - 2 + 1 + 1.5, relabelled
C27_Witness ==
    /\ aiResult # None
    /\ price_source.raises = "none"
    /\ Len(price_source.close) >= 50
    /\ Val(aiResult).momentum_trend = "oversold - potential bounce"
    /\ Val(aiResult).momentum_score = 55

----------------------------------------------------------------------------
(* Flags driven by one label: src/analysis/ai_scoring.py *)

HasFlag(b, text) == \E i \in 1..Len(b.flags) : b.flags[i].text = text

\* price < SMA20 < SMA50 on a history of 50 closes or more
BearishOrdering(close) ==
    /\ Len(close) >= 50
    /\ 20 * close[Len(close)] < LastSum(close, 20)
    /\ 50 * LastSum(close, 20) < 20 * LastSum(close, 50)

\* the 14-period RSI exists and is below 30
RsiBelow30(close) ==
    /\ Len(close) >= 14
    /\ LastSum(Falls(close), 14) > 0
    /\ 100 * LastSum(Rises(close), 14)
       < 30 * (LastSum(Rises(close), 14) + LastSum(Falls(close), 14))

\* C29: "RISK: Bearish technical trend" and "OPPORTUNITY: Technically
\* oversold" are never both in one breakdown, nor are "OPPORTUNITY:
\* Accelerating growth" and "RISK: Decelerating growth"; a bearish price
\* ordering with an RSI below 30 gets the oversold flag and not the
\* bearish one
C29_FlagPairsExclusive ==
    aiResult # None =>
        LET b == Val(aiResult)
        IN  /\ ~(/\ HasFlag(b, "RISK: Bearish technical trend")
                  /\ HasFlag(b, "OPPORTUNITY: Technically oversold"))
            /\ ~(/\ HasFlag(b, "OPPORTUNITY: Accelerating growth")
                  /\ HasFlag(b, "RISK: Decelerating growth"))
            /\ (/\ price_source.raises = "none"
                 /\ BearishOrdering(price_source.close)
                 /\ RsiBelow30(price_source.close))
                   => /\ HasFlag(b, "OPPORTUNITY: Technically oversold")
                      /\ ~HasFlag(b, "RISK: Bearish technical trend")

\* a bearish ordering with an RSI below 30, on an analysis whose estimates
\* decelerate: the oversold and the decelerating flags, neither of their
\* opposites
C29_Witness ==
    /\ aiResult # None
    /\ price_source.raises = "none"
    /\ BearishOrdering(price_source.close)
    /\ RsiBelow30(price_source.close)
    /\ HasFlag(Val(aiResult), "OPPORTUNITY: Technically oversold")
    /\ HasFlag(Val(aiResult), "RISK: Decelerating growth")
    /\ ~HasFlag(Val(aiResult), "RISK: Bearish technical trend")
    /\ ~HasFlag(Val(aiResult), "OPPORTUNITY: Accelerating growth")

----------------------------------------------------------------------------
(* The result of a screening pass: src/core/screener.py *)

\* a missing score counting as 0
ScoreOrZero(s) == IF s.score = None THEN 0 ELSE Val(s.score)

\* output.max_results of the configuration, 100 when it is not given
ConfiguredMaxResults ==
    IF "output" \in DOMAIN config /\ config.output.max_results # None
    THEN Val(config.output.max_results)
    ELSE 100

\* C28: in the result of run, every Stock is one passes_all returned True
\* for during the pass; with scoring enabled the list is in non-increasing
\* order of score (a missing score counting as 0); its length is at most
\* output.max_results (default 100); total_matches is that length and does
\* not exceed total_scanned
C28_ResultApprovedSortedBounded ==
    run.result # None =>
        LET result == Val(run.result)
            stocks == result.stocks
        IN  /\ \A k \in 1..Len(stocks) :
                   /\ \E j \in 1..Len(run.built) :
                          /\ run.built[j].stock = stocks[k]
                          /\ run.built[j].passed = Some(TRUE)
                   /\ passes_all(filters, stocks[k])
            /\ scoring_enabled(config)
                   => \A k \in 1..(Len(stocks) - 1) :
                          ScoreOrZero(stocks[k]) >= ScoreOrZero(stocks[k + 1])
            /\ Len(stocks) <= ConfiguredMaxResults
            /\ result.total_matches = Len(stocks)
            /\ result.total_matches <= result.total_scanned

\* three candidates scanned, one rejected; of the two approved the one
\* built later has the higher score and comes first in the result
C28_Witness ==
    /\ run.result # None
    /\ scoring_enabled(config)
    /\ Val(run.result).total_scanned = 3
    /\ Len(Val(run.result).stocks) = 2
    /\ ScoreOrZero(Val(run.result).stocks[1])
       > ScoreOrZero(Val(run.result).stocks[2])
    /\ run.passing_stocks[1] > run.passing_stocks[2]
    /\ \E j \in 1..Len(run.built) : run.built[j].passed = Some(FALSE)

----------------------------------------------------------------------------
(* Failures during a screening pass: src/core/screener.py *)

\* a step of the loop body that recorded a failure
FailureRecorded ==
    /\ run.pc \in {"build", "filter", "score"}
    /\ Len(run'.errors) = Len(run.errors) + 1

\* such a step adds "<symbol>: <message>" for the candidate at hand, adds
\* no Stock to the results and goes on with the next candidate
FailureStep ==
    FailureRecorded =>
        LET entry == run'.errors[Len(run'.errors)]
        IN  /\ SubSeq(run'.errors, 1, Len(run.errors)) = run.errors
            /\ Len(entry) = 3
            /\ entry[1] = Val(run.candidates[run.i].symbol)
            /\ entry[2] = ": "
            /\ run'.passing_stocks = run.passing_stocks
            /\ run'.candidates = run.candidates
            /\ run'.pc = "loop"
            /\ run'.i = run.i + 1

\* a failed universe fetch is recorded and leaves no candidate
FetchStep ==
    (run.pc = "start" /\ run'.errors # <<>>)
        => Len(run'.errors) = 1 /\ run'.candidates = <<>>

\* how far run has come: the statements of one pass in program order
Progress(r) ==
    CASE r.pc = "start"  -> 0
      [] r.pc = "loop"   -> 4 * r.i - 3
      [] r.pc = "build"  -> 4 * r.i - 2
      [] r.pc = "filter" -> 4 * r.i - 1
      [] r.pc = "score"  -> 4 * r.i
      [] r.pc = "finish" -> 4 * Len(r.candidates) + 2
      [] r.pc = "done"   -> 4 * Len(r.candidates) + 3

\* run is at a statement, has a next step until it has returned (nothing
\* propagates out of it), and its return value is a ScreenerResult with
\* the errors recorded, no Stock of a failed candidate, and every
\* candidate that has a symbol scanned
RunReturns ==
    /\ run.pc \in {"start", "loop", "build", "filter", "score", "finish",
                   "done"}
    /\ Progress(run) <= 4 * MaxCandidates + 3
    /\ run.pc # "done" => ENABLED NextRun
    /\ run.pc = "done" <=> run.result # None
    /\ run.result # None =>
           LET result == Val(run.result)
           IN  /\ result.errors = run.errors
               /\ \A k \in 1..Len(result.stocks) :
                      \A e \in 1..Len(run.errors) :
                          run.errors[e][1] # result.stocks[k].symbol
               /\ result.total_scanned
                  = Cardinality({k \in 1..Len(run.candidates) :
                                    run.candidates[k].symbol # None})

============================================================================
